---- MODULE Spec2Model ----
(***************************************************************************)
(* A model of MOCHI's orchestration core: one execution of                 *)
(* orchestrator.Run (parse, worktree creation, the per-task Ralph Loop in  *)
(* sequential or parallel mode, output dispatch, cleanup, exit status),    *)
(* the worktree Manager with its manifest file, and the memory files.      *)
(*                                                                         *)
(* Strings are sequences of one-character strings, so that slugs, paths    *)
(* and branch names are computed the way the code computes them.           *)
(* File-system reads and writes of the manifest and of the memory files    *)
(* are taken to succeed; the failures of external commands (git, the       *)
(* agent and reviewer CLIs, gh) are nondeterministic outcomes.             *)
(***************************************************************************)
EXTENDS Integers, Sequences, FiniteSets, TLC

\* ---------------------------------------------------------------- bounds
\* largest number of item lines in the task file
MaxTasks == 2
\* largest value of --max-iterations that is explored
MaxIterBound == 2
\* largest product of task count and iteration bound in a run
MaxLoopWork == 4
\* longest title handed to toSlug on its own (long titles apart)
MaxTitleLen == 3
\* largest branch suffix in the sets of existing branches (full sets apart)
MaxSuffix == 3
\* longest reviewer output, in symbols
MaxReviewLen == 4
\* largest number of lines of a task file handed to ParseFile on its own
MaxFileLines == 3
MaxRawLines == 2

\* ------------------------------------------------------ program constants
\* toSlug cuts the slug at this many bytes
SlugMaxLen == 100
\* resolveBranch tries the suffixes 2 .. ResolveLimit-1
ResolveLimit == 100
\* Run asks the model for a shorter slug when a slug has this many bytes
AiSlugMinLen == 50

\* ---------------------------------------------------------------- strings
Min(S) == CHOOSE x \in S : \A y \in S : x <= y

\* unicode.IsLetter(r) || unicode.IsDigit(r), over the input alphabet
IsLetterOrDigit(r) == r \in {"a", "b", "x", "A", "B", "1", "2", "é"}

\* strings.ToLower, one rune
LowerRune(r) == CASE r = "A" -> "a" [] r = "B" -> "b" [] OTHER -> r

ToLower(s) == [i \in 1..Len(s) |-> LowerRune(s[i])]

RECURSIVE TrimRightDash(_)
TrimRightDash(s) ==
    IF s = <<>> THEN s
    ELSE IF s[Len(s)] = "-" THEN TrimRightDash(SubSeq(s, 1, Len(s) - 1))
    ELSE s

\* one pass of the rune loop of toSlug: b is the strings.Builder, prevDash
\* its flag
slugStep(st, r) ==
    IF IsLetterOrDigit(r) THEN [b |-> Append(st.b, r), prevDash |-> FALSE]
    ELSE IF ~st.prevDash /\ Len(st.b) > 0
    THEN [b |-> Append(st.b, "-"), prevDash |-> TRUE]
    ELSE [b |-> st.b, prevDash |-> st.prevDash]

\* the rune loop of toSlug over the runes lo..hi of s, from the state st:
\* the first half of the range, then the second half from the state mid
\* that the first half left
RECURSIVE slugScan(_, _, _, _)
slugScan(s, lo, hi, st) ==
    IF lo > hi THEN st
    ELSE IF lo = hi THEN slugStep(st, s[lo])
    ELSE CHOOSE end \in {slugScan(s, ((lo + hi) \div 2) + 1, hi, mid) :
                            mid \in {slugScan(s, lo, (lo + hi) \div 2, st)}} : TRUE

toSlug(s) ==
    LET res == TrimRightDash(slugScan(ToLower(s), 1, Len(s),
                                      [b |-> <<>>, prevDash |-> FALSE]).b)
    IN  IF Len(res) > SlugMaxLen
        THEN TrimRightDash(SubSeq(res, 1, SlugMaxLen))
        ELSE res

\* decimal digits of i, 0 <= i < 100 (fmt.Sprintf("%d", i))
DigitChar(d) == CASE d = 0 -> "0" [] d = 1 -> "1" [] d = 2 -> "2" [] d = 3 -> "3"
                  [] d = 4 -> "4" [] d = 5 -> "5" [] d = 6 -> "6" [] d = 7 -> "7"
                  [] d = 8 -> "8" [] OTHER -> "9"

Digits(i) == IF i < 10 THEN <<DigitChar(i)>>
             ELSE <<DigitChar(i \div 10), DigitChar(i % 10)>>

\* filepath.Join(m.WorktreeDir, slug)
PathOf(slug) == <<".worktrees/">> \o slug

\* fmt.Sprintf("%s/%s", m.BranchPrefix, slug)
BranchOf(slug) == <<"feature/">> \o slug

\* fmt.Sprintf("%s-%d", branch, i)
Candidate(branch, i) == branch \o <<"-">> \o Digits(i)

\* variant: the suffixes tried start at 3
resolveBranchSkipsTwo(branch, existing) ==
    IF branch \notin existing THEN branch
    ELSE LET free == {i \in 3..(ResolveLimit - 1) : Candidate(branch, i) \notin existing}
         IN  IF free = {} THEN branch ELSE Candidate(branch, Min(free))

\* Manager.resolveBranch, branchExists answered from the set existing
resolveBranch(branch, existing) ==
    IF branch \notin existing THEN branch
    ELSE LET free == {i \in 2..(ResolveLimit - 1) : Candidate(branch, i) \notin existing}
         IN  IF free = {} THEN branch ELSE Candidate(branch, Min(free))

\* variant: every task is recorded as done
statusStrAlwaysDone(success) == "done"

\* statusStr
statusStr(success) == IF success THEN "done" ELSE "failed"

\* ------------------------------------------------------------------ inputs
\* item texts of the task file; "a" and "A!" slugify to the same slug
Titles == <<<<"a">>, <<"A", "!">>, <<"b">>>>

\* the item lines of a task file: up to MaxTasks different item texts, in
\* the order of Titles
TitleLists ==
    {l \in UNION {[1..n -> 1..Len(Titles)] : n \in 1..MaxTasks} :
        \A i, j \in 1..Len(l) : i < j => l[i] < l[j]}

\* an item text whose slug is long enough for Run to ask for a better one
LongTitle == [i \in 1..AiSlugMinLen |-> "a"]

\* the task file: unreadable, empty after trimming, or a "## Tasks" section
\* with one bullet line per item text (the long item text stands alone)
Inputs == {[kind |-> "unreadable", titles |-> <<>>], [kind |-> "empty", titles |-> <<>>]}
          \cup {[kind |-> "tasks", titles |-> [i \in 1..Len(l) |-> Titles[l[i]]]] :
                   l \in TitleLists}
          \cup {[kind |-> "tasks", titles |-> <<LongTitle>>]}

\* what agent.GenerateTitle returns for a task: <<>> for an error or an
\* empty answer, else the new slug
TitleOutcomes == {<<>>, <<"x">>}

\* output.ValidMode: the known output modes
ValidMode(m) ==
    m \in {"pr", "research-report", "audit", "knowledge-base", "issue", "file"}

\* the values of --output-mode explored: the default, a mode with a handler,
\* and a string that is no mode
OutputModes == {"pr", "file", "bogus"}

\* config.Config, the fields the run reads; Reviewer stands for
\* ReviewerModel != "", TaskFilter <<>> for no filter, Issue for
\* IssueNumber > 0
AllConfigs == [Issue : BOOLEAN, OutputMode : OutputModes, Sequential : BOOLEAN, MaxWorktrees : 0..MaxTasks,
               MaxIterations : 0..MaxIterBound, Reviewer : BOOLEAN,
               DryRun : BOOLEAN, KeepWorktrees : BOOLEAN, CreatePRs : BOOLEAN,
               TaskFilter : {<<>>, <<"a">>, <<"z">>}]

\* config.Default for the options of the loops: one iteration, no reviewer,
\* no ceiling
LoopDefaults(c) == ~c.Reviewer /\ c.MaxIterations = 1 /\ c.MaxWorktrees = 0

\* The configurations explored.  --worktrees is only read in parallel mode.
\* --keep-worktrees and --create-prs only act after the loops have joined:
\* they are varied in sequential runs with the loop options at their
\* defaults, and runs with other loop options keep their worktrees and
\* dispatch nothing, or (sequential runs) dispatch and clean up.  --dry-run and --task only act before the loops and are
\* varied in sequential runs with every other option at its default.
\* --issue only changes where the task file comes from and is varied in
\* sequential runs with every option but --dry-run at its default.
\* --output-mode only acts after the loops and is varied in sequential runs
\* that keep their worktrees, with every other option at its default.
Configs ==
    {c \in AllConfigs :
        /\ c.OutputMode # "pr" =>
              /\ ~c.Issue /\ c.Sequential /\ LoopDefaults(c) /\ c.TaskFilter = <<>>
              /\ ~c.DryRun /\ c.KeepWorktrees /\ ~c.CreatePRs
        /\ c.Issue =>
              /\ c.Sequential /\ LoopDefaults(c) /\ c.TaskFilter = <<>>
              /\ ~c.KeepWorktrees /\ c.CreatePRs
        /\ c.Sequential => c.MaxWorktrees = 0
        /\ (LoopDefaults(c) /\ ~c.Sequential) => ~c.KeepWorktrees /\ c.CreatePRs
        /\ ~LoopDefaults(c) =>
              \/ c.KeepWorktrees /\ ~c.CreatePRs
              \/ c.Sequential /\ ~c.KeepWorktrees /\ c.CreatePRs
        /\ (c.DryRun \/ c.TaskFilter # <<>>) =>
              /\ c.Sequential /\ LoopDefaults(c)
              /\ ~c.KeepWorktrees /\ c.CreatePRs}

\* worktree.Entry
NewEntry(slug, path, branch, status) ==
    [Slug |-> slug, Path |-> path, Branch |-> branch, Status |-> status]

NoEntry == NewEntry(<<>>, <<>>, <<>>, "")

\* memory.Context; a missing or empty file is the empty sequence
EmptyContext == [Progress |-> <<>>, Memory |-> <<>>, Agents |-> <<>>, Feedback |-> <<>>]

\* the repository before the run: untouched; left over from an earlier run
\* (a branch feature/a without worktree, a manifest entry of another slug);
\* or with the worktree of task a kept by an earlier run (--keep-worktrees),
\* its memory files as that run's loop wrote them
OldEntry == NewEntry(<<"o">>, PathOf(<<"o">>), BranchOf(<<"o">>), "done")
KeptEntry == NewEntry(<<"a">>, PathOf(<<"a">>), BranchOf(<<"a">>), "done")
KeptMemory ==
    [Progress |-> <<"# Task Progress", <<"a">>, 1, "done">>,
     Memory   |-> <<"# Worker Memory", 1, [len |-> 10, marked |-> FALSE]>>,
     Agents   |-> <<"# Agent Learnings", 1, "done", "">>,
     Feedback |-> <<>>]
InitialRepos ==
    {[branches |-> {}, worktrees |-> {}, manifest |-> [s \in {} |-> OldEntry],
      memory |-> [p \in {} |-> EmptyContext]],
     [branches |-> {BranchOf(<<"a">>)}, worktrees |-> {},
      manifest |-> [s \in {<<"o">>} |-> OldEntry],
      memory |-> [p \in {} |-> EmptyContext]],
     [branches |-> {BranchOf(<<"a">>)},
      worktrees |-> {[path |-> PathOf(<<"a">>), branch |-> BranchOf(<<"a">>)]},
      manifest |-> [s \in {<<"a">>} |-> KeptEntry],
      memory |-> [p \in {PathOf(<<"a">>)} |-> KeptMemory]]}

\* agent.Result of one worker invocation: success or not, captured output
\* (its length in characters)
WorkerResults == {[Success |-> TRUE, Output |-> [len |-> 10, marked |-> FALSE]],
                  [Success |-> FALSE, Output |-> [len |-> 0, marked |-> FALSE]]}
ZeroResult == [Success |-> FALSE, Output |-> [len |-> 0, marked |-> FALSE]]

\* what reviewer.Review returns: an error, or the parsed Decision
ReviewOutcomes == {[err |-> TRUE, Done |-> FALSE, Feedback |-> ""],
                   [err |-> FALSE, Done |-> TRUE, Feedback |-> ""],
                   [err |-> FALSE, Done |-> FALSE, Feedback |-> "add tests"],
                   [err |-> FALSE, Done |-> FALSE, Feedback |-> ""]}

ZeroLoopResult == [FinalWorkerResult |-> ZeroResult, Iterations |-> 0,
                   FinalMemory |-> EmptyContext]

\* ------------------------------------------------------------------- state
VARIABLES
    cfg,          \* the Config handed to Run
    input,        \* the task file
    repo0,        \* the repository Run started from
    phase,        \* where Run's coordinator stands
    exitCode,     \* process exit status, -1 while running
    setupErr,     \* the error Run returned before the loops, "" if none
    tasks,        \* []parser.Task
    entries,      \* []*worktree.Entry, one per created worktree
    idx,          \* index of the coordinator's current for loop
    branches,     \* git: existing branch names
    worktrees,    \* git: registered worktrees, records of path and branch
    manifest,     \* .mochi_manifest.json, slug -> Entry
    memory,       \* the memory files, worktree path -> Context
    sem,          \* number of tokens in the semaphore channel
    wg,           \* sync.WaitGroup counter
    g,            \* per task: the goroutine's (or loop body's) locals
    loopResults,  \* []LoopResult
    results,      \* []agent.Result
    dispatched,   \* per task: outcome of the output dispatch
    invocations,  \* per task: number of agent.Invoke calls made
    reviews,      \* per task: number of reviewer.Review calls made
    workerFails,  \* per task: number of agent.Invoke calls that failed
    doneAt,       \* per task: first iteration whose verdict was DONE, 0 if none
    titleCalls,   \* number of agent.GenerateTitle calls made
    prLogPath,    \* per task: the LogPath handed to gh.CreatePR, <<>> if none
    issueTmp,     \* the temp file of the issue body: "none", "exists" or "removed"
    call          \* a library function applied on its own: name, argument, result

vars == <<cfg, input, repo0, phase, exitCode, setupErr, tasks, entries, idx,
          branches, worktrees, manifest, memory, sem, wg, g, loopResults,
          results, dispatched, invocations, reviews, workerFails, doneAt,
          titleCalls, prLogPath, issueTmp, call>>

N == Len(tasks)
TaskIds == 1..N

\* no function has been applied
NoCall == [fn |-> "none", arg |-> <<>>, out |-> <<>>]

ZeroLocals == [pc |-> "idle", iter |-> 0, iterations |-> 0, memCtx |-> EmptyContext,
               result |-> ZeroResult, notes |-> "", done |-> FALSE,
               reviewed |-> "none", lastMemCtx |-> EmptyContext,
               entry |-> NoEntry, logPath |-> <<>>]

\* the runs explored start from a configuration of CS and a task file of IS;
\* a repository with a kept worktree is explored in sequential runs without
\* reviewer
InitOver(CS, IS) ==
    /\ cfg \in CS
    /\ input \in IS
    /\ Len(input.titles) * (IF cfg.MaxIterations < 1 THEN 1 ELSE cfg.MaxIterations)
          <= MaxLoopWork
    /\ repo0 \in InitialRepos
    /\ repo0.worktrees # {} =>
          /\ ~cfg.Issue /\ cfg.Sequential /\ ~cfg.Reviewer /\ cfg.MaxWorktrees = 0
          /\ ~cfg.DryRun /\ cfg.TaskFilter = <<>>
    /\ phase = "deps"
    /\ exitCode = -1
    /\ setupErr = ""
    /\ tasks = <<>>
    /\ entries = <<>>
    /\ idx = 0
    /\ branches = repo0.branches
    /\ worktrees = repo0.worktrees
    /\ manifest = repo0.manifest
    /\ memory = repo0.memory
    /\ sem = 0
    /\ wg = 0
    /\ g = <<>>
    /\ loopResults = <<>>
    /\ results = <<>>
    /\ dispatched = <<>>
    /\ invocations = <<>>
    /\ reviews = <<>>
    /\ workerFails = <<>>
    /\ doneAt = <<>>
    /\ titleCalls = 0
    /\ prLogPath = <<>>
    /\ issueTmp = "none"
    /\ call = NoCall

Init == InitOver(Configs, Inputs)

\* --------------------------------------------------------- pure operations
\* filterBySlug: the first task with that slug, or none
filterBySlug(ts, slug) ==
    LET hits == {i \in 1..Len(ts) : ts[i].Slug = slug}
    IN  IF hits = {} THEN <<>> ELSE <<ts[Min(hits)]>>

\* Manager.GetEntry: loadManifest under the mutex, then the lookup;
\* NoEntry stands for the "no worktree entry found" error
GetEntry(man, slug) == IF slug \in DOMAIN man THEN man[slug] ELSE NoEntry

\* variant: the file is not read back, the mapping written holds this entry only
saveEntryFresh(man, entry) == [s \in {entry.Slug} |-> entry]

\* Manager.saveEntry: under the mutex, read the file, set the slug's entry,
\* write the whole mapping back
saveEntry(man, entry) ==
    [s \in DOMAIN man \cup {entry.Slug} |-> IF s = entry.Slug THEN entry ELSE man[s]]

\* variant: the mapping is written back with the slug still in it
removeEntryKeeps(man, slug) == man

\* Manager.removeEntry: under the mutex, read the file, delete the slug,
\* write the whole mapping back
removeEntry(man, slug) == [s \in DOMAIN man \ {slug} |-> man[s]]

\* isWorktree / getWorktreeBranch, answered from git's worktree list
isWorktree(wts, path) == \E w \in wts : w.path = path

\* variant: the branch is taken to be the default name for the directory
getWorktreeBranchFromPath(wts, path) == <<"feature/">> \o Tail(path)

getWorktreeBranch(wts, path) == (CHOOSE w \in wts : w.path = path).branch

\* memory.truncate cuts at maxLen characters and appends "\n...[truncated]"
MemTruncLen == 4000
TruncMarkerLen == 15
truncate(o, maxLen) ==
    IF o.len <= maxLen THEN o ELSE [len |-> maxLen + TruncMarkerLen, marked |-> TRUE]

\* variant: the progress file always says in-progress
WriteFilesNoStatus(data) ==
    [Progress |-> <<"# Task Progress", data.Task, data.Iteration, "in-progress">>,
     Memory   |-> <<"# Worker Memory", data.Iteration, truncate(data.WorkerOutput, MemTruncLen)>>,
     Agents   |-> <<"# Agent Learnings", data.Iteration, "in-progress", data.ReviewerNotes>>,
     Feedback |-> IF data.ReviewerNotes = "" THEN <<>>
                  ELSE <<"# Reviewer Feedback", data.Iteration, data.ReviewerNotes>>]

\* memory.Write: the four files generated from an IterationData
WriteFiles(data) ==
    [Progress |-> <<"# Task Progress", data.Task, data.Iteration, data.Status>>,
     Memory   |-> <<"# Worker Memory", data.Iteration, truncate(data.WorkerOutput, MemTruncLen)>>,
     Agents   |-> <<"# Agent Learnings", data.Iteration, data.Status, data.ReviewerNotes>>,
     Feedback |-> IF data.ReviewerNotes = "" THEN <<>>
                  ELSE <<"# Reviewer Feedback", data.Iteration, data.ReviewerNotes>>]

\* variant: FEEDBACK.md is left alone when there are no reviewer notes
WriteKeepsOldFeedback(mem, path, data) ==
    [p \in DOMAIN mem \cup {path} |->
        IF p # path THEN mem[p]
        ELSE IF data.ReviewerNotes = "" /\ path \in DOMAIN mem
        THEN [WriteFiles(data) EXCEPT !.Feedback = mem[path].Feedback]
        ELSE WriteFiles(data)]

Write(mem, path, data) ==
    [p \in DOMAIN mem \cup {path} |-> IF p = path THEN WriteFiles(data) ELSE mem[p]]

\* memory.Load: missing files read as empty
Load(mem, path) == IF path \in DOMAIN mem THEN mem[path] ELSE EmptyContext

\* variant: max-iterations is taken as configured
maxIterOfAsGiven(m) == m

\* runRalphLoop: maxIter := cfg.MaxIterations, raised to 1 when below
maxIterOf(m) == IF m < 1 THEN 1 ELSE m

\* variant: a DONE verdict does not end the loop
loopDoneIgnoresVerdict(success, reviewer, reviewerDone) ==
    IF ~success THEN TRUE
    ELSE IF ~reviewer THEN TRUE
    ELSE FALSE

\* runRalphLoop: the value of done after the reviewer block
loopDone(success, reviewer, reviewerDone) ==
    IF ~success THEN TRUE
    ELSE IF ~reviewer THEN TRUE
    ELSE reviewerDone

\* variant: a failed worker leaves the status at in-progress
iterStatusNeverFailed(success, done, iter, maxIter) ==
    IF done /\ success THEN "done" ELSE "in-progress"

\* runRalphLoop: the status handed to memory.Write
iterStatus(success, done, iter, maxIter) ==
    IF (done \/ iter = maxIter) /\ done /\ success THEN "done"
    ELSE IF ~success THEN "failed"
    ELSE "in-progress"

\* variant: the for condition lets one iteration too many through
loopContinuesOffByOne(done, iter, maxIter) == ~done /\ iter <= maxIter

\* runRalphLoop: the for loop goes on to iteration iter+1
loopContinues(done, iter, maxIter) == ~done /\ iter + 1 <= maxIter

\* Run: the semaphore exists only when 0 < MaxWorktrees < len(tasks)
semOn == cfg.MaxWorktrees > 0 /\ cfg.MaxWorktrees < N

\* variant: the channel takes one token more than its capacity
semHasRoomOffByOne(held, capacity) == held <= capacity

\* sem <- struct{}{} goes through when the channel has room
semHasRoom(held, capacity) == held < capacity

\* variant: the deferred release leaves the token in the channel
semReleaseKeeps(held) == held

\* <-sem takes one token out
semRelease(held) == held - 1

\* variant: the sequential for loop is left after a failed task
seqNextStopOnFailure(i, success) == IF success THEN i + 1 ELSE Len(tasks) + 1

\* Run, sequential mode: the for loop's next index after task i
seqNext(i, success) == i + 1

\* runRalphLoop of task t has been entered and has not returned
InLoop(t) == g[t].pc \in {"iter", "review", "write"}
InFlight == {t \in TaskIds : phase = "loops" /\ InLoop(t)}


\* --------------------------------------------------- library functions
\* all sequences over S of length at most n
SeqsUpTo(S, n) == UNION {[1..k -> S] : k \in 0..n}

\* strings.TrimSpace; the white space of the alphabets is " " and "\n"
IsSpace(c) == c \in {" ", "\n"}

RECURSIVE TrimLeft(_)
TrimLeft(s) == IF s # <<>> /\ IsSpace(Head(s)) THEN TrimLeft(Tail(s)) ELSE s

RECURSIVE TrimRight(_)
TrimRight(s) ==
    IF s # <<>> /\ IsSpace(s[Len(s)]) THEN TrimRight(SubSeq(s, 1, Len(s) - 1)) ELSE s

TrimSpace(s) == TrimRight(TrimLeft(s))

\* The annotations of an item text, each standing for its characters:
\* [model:m], and [title:...] with the text it captures
ModelAnnotations == {"[model:m]"}
TitleAnnotations == {"[title:b]", "[title: ]"}
TitleCapture(sym) == IF sym = "[title:b]" THEN <<"b">> ELSE <<" ">>

\* annotation.ReplaceAllString(s, "")
RECURSIVE Without(_, _)
Without(s, syms) ==
    IF s = <<>> THEN <<>>
    ELSE IF Head(s) \in syms THEN Without(Tail(s), syms)
    ELSE <<Head(s)>> \o Without(Tail(s), syms)

\* annotation.FindStringSubmatch(s) finds a match
HasAny(s, syms) == \E i \in 1..Len(s) : s[i] \in syms

\* extractTaskFromLine: the [model:] annotation is cut out, then the [title:]
\* annotation, whose text replaces the title unless it is blank
extractTaskFromLine(title) ==
    LET noModel == CHOOSE t \in {IF HasAny(title, ModelAnnotations)
                                 THEN TrimSpace(Without(title, ModelAnnotations))
                                 ELSE title} : TRUE
        explicitTitle ==
            IF HasAny(noModel, TitleAnnotations)
            THEN TrimSpace(TitleCapture(
                     noModel[Min({i \in 1..Len(noModel) : noModel[i] \in TitleAnnotations})]))
            ELSE <<>>
        rest == IF HasAny(noModel, TitleAnnotations)
                THEN TrimSpace(Without(noModel, TitleAnnotations)) ELSE noModel
        final == CHOOSE t \in {IF explicitTitle # <<>> THEN explicitTitle ELSE rest} : TRUE
    IN  CHOOSE task \in {[Title |-> t, Description |-> <<>>, Slug |-> toSlug(t)] :
                            t \in {final}} : TRUE

\* parseStructuredTasks on a file made of a "## Tasks" heading followed by
\* one bullet line per element of titles
parseStructuredTasks(titles) ==
    [i \in 1..Len(titles) |-> extractTaskFromLine(titles[i])]

\* strings.Split(s, "\n"): the lines of s, one more than its line feeds
FirstLineFeed(s) == Min({i \in 1..Len(s) : s[i] = "\n"})

RECURSIVE SplitLines(_)
SplitLines(s) ==
    IF \A i \in 1..Len(s) : s[i] # "\n" THEN <<s>>
    ELSE <<SubSeq(s, 1, FirstLineFeed(s) - 1)>>
         \o SplitLines(SubSeq(s, FirstLineFeed(s) + 1, Len(s)))

\* The reviewer's output is a sequence of symbols: white space, and words
\* that stand for their letters.  strings.ToUpper, word by word:
UpperSym(c) == CASE c = "done" -> "DONE" [] c = "retry:" -> "RETRY:"
                 [] c = "x" -> "X" [] OTHER -> c

ToUpper(s) == [i \in 1..Len(s) |-> UpperSym(s[i])]

ReviewSyms == {" ", "\n", "DONE", "done", "retry:", "x"}

\* reviewer.Decision without Raw
Decision(done, feedback) == [Done |-> done, Feedback |-> feedback]

\* parseDecision, the for loop over the lines and the default after it
RECURSIVE decisionScan(_, _)
decisionScan(lines, output) ==
    IF lines = <<>> THEN Decision(FALSE, TrimSpace(output))
    ELSE LET trimmed == TrimSpace(Head(lines))
             upper == ToUpper(trimmed)
         IN  IF upper = <<"DONE">> THEN Decision(TRUE, <<>>)
             ELSE IF upper # <<>> /\ Head(upper) = "RETRY:"
             THEN Decision(FALSE, TrimSpace(Tail(trimmed)))
             ELSE decisionScan(Tail(lines), output)

\* variant: the last qualifying line decides
parseDecisionLastWins(output) ==
    LET lines == SplitLines(output)
    IN  decisionScan([i \in 1..Len(lines) |-> lines[Len(lines) + 1 - i]], output)

\* reviewer.parseDecision
parseDecision(output) == decisionScan(SplitLines(output), output)

\* the titles handed to toSlug: short ones over letters, a digit, a
\* punctuation mark and a non-ASCII letter, and ones about SlugMaxLen long
SlugSyms == {"a", "B", "1", "!", "é"}
LongRun(n) == [i \in 1..n |-> "a"]
SlugInputs ==
    SeqsUpTo(SlugSyms, MaxTitleLen)
    \cup {LongRun(n) \o t : n \in {SlugMaxLen - 1, SlugMaxLen},
                            t \in SeqsUpTo({"a", "!"}, 2)}

\* the i-th name resolveBranch tries for branch: the branch itself, then
\* branch-2, branch-3, ...
BranchName(branch, i) == IF i = 1 THEN branch ELSE Candidate(branch, i)

\* the sets of existing branches handed to resolveBranch: every set of the
\* first MaxSuffix names, and the sets of the first 98 and of all 99 names
ResolveInputs ==
    SUBSET {BranchName(BranchOf(<<"a">>), i) : i \in 1..MaxSuffix}
    \cup {{BranchName(BranchOf(<<"a">>), i) : i \in 1..k} :
             k \in {ResolveLimit - 2, ResolveLimit - 1}}

\* A task file line by line.  A line is a "## Tasks" heading (section),
\* another "## " heading, an item ("- [ ] t" open, "- [x] t" closed, "- t"
\* bullet, "1. t" numbered), plain text, a blank line, or a line longer
\* than bufio.Scanner's token limit (overlong).
ItemKinds == {"open", "closed", "bullet", "numbered"}
ItemTitles == {<<"a">>, <<"b">>}
FileLineSet ==
    {[kind |-> k, title |-> t] : k \in ItemKinds, t \in ItemTitles}
    \cup {[kind |-> k, title |-> <<>>] :
             k \in {"section", "heading", "text", "blank", "overlong"}}
Files == SeqsUpTo(FileLineSet, MaxFileLines)

\* the files that open a task section in their first line
SectionFiles == {<<[kind |-> "section", title |-> <<>>]>> \o f : f \in Files}

\* scanner.Scan stops at the first overlong line and scanner.Err reports it
scanErr(lines) == \E i \in 1..Len(lines) : lines[i].kind = "overlong"

\* the result of a strategy or of ParseFile: a task list or an error
Parsed(ts) == [tasks |-> ts, err |-> ""]
ParseError(e) == [tasks |-> <<>>, err |-> e]

\* currentTask.Description += line, after a "\n" when the Description is
\* not empty, for the current task if there is one; a Description is the
\* sequence of the numbers of the lines it holds: an empty line added to an
\* empty Description leaves it empty
appendLine(cur, lines, i) ==
    IF cur = <<>> THEN cur
    ELSE IF cur[1].Description = <<>> /\ lines[i].kind = "blank" THEN cur
    ELSE <<[cur[1] EXCEPT !.Description = Append(@, i)]>>

\* variant: a completed checkbox leaves currentTask as it was
afterClosedBoxKeepsTask(cur) == cur

\* currentTask = nil after a checkbox whose marker is x or X
afterClosedBox(cur) == <<>>

\* the scan loop of parseStructuredTasks from line i on; cur is currentTask
\* (<<>> for nil), acc the tasks appended so far
RECURSIVE structuredScan(_, _, _, _, _)
structuredScan(lines, i, inTasksSection, cur, acc) ==
    IF i > Len(lines) THEN acc \o cur
    ELSE IF lines[i].kind \in {"section", "heading"}
    THEN structuredScan(lines, i + 1, lines[i].kind = "section", <<>>, acc \o cur)
    ELSE IF ~inTasksSection
    THEN structuredScan(lines, i + 1, inTasksSection, cur, acc)
    ELSE IF lines[i].kind = "closed"
    THEN structuredScan(lines, i + 1, inTasksSection, afterClosedBox(cur), acc \o cur)
    ELSE IF lines[i].kind \in {"open", "bullet", "numbered"}
    THEN structuredScan(lines, i + 1, inTasksSection,
                        <<extractTaskFromLine(lines[i].title)>>, acc \o cur)
    ELSE structuredScan(lines, i + 1, inTasksSection, appendLine(cur, lines, i), acc)

\* parseStructuredTasks on the lines of a file
parseStructuredLines(lines) ==
    IF scanErr(lines) THEN ParseError("error reading task file")
    ELSE Parsed(structuredScan(lines, 1, FALSE, <<>>, <<>>))

\* the scan loop of parseCheckboxTasks from line i on
RECURSIVE checkboxScan(_, _, _, _)
checkboxScan(lines, i, cur, acc) ==
    IF i > Len(lines) THEN acc \o cur
    ELSE IF lines[i].kind = "closed"
    THEN checkboxScan(lines, i + 1, afterClosedBox(cur), acc \o cur)
    ELSE IF lines[i].kind = "open"
    THEN checkboxScan(lines, i + 1, <<extractTaskFromLine(lines[i].title)>>, acc \o cur)
    ELSE IF cur # <<>> /\ lines[i].kind = "blank"
    THEN checkboxScan(lines, i + 1, <<>>, acc \o cur)
    ELSE IF lines[i].kind \in {"section", "heading"}
    THEN checkboxScan(lines, i + 1, cur, acc)
    ELSE checkboxScan(lines, i + 1, appendLine(cur, lines, i), acc)

\* parseCheckboxTasks on the lines of a file
parseCheckboxLines(lines) ==
    IF scanErr(lines) THEN ParseError("error reading task file")
    ELSE Parsed(checkboxScan(lines, 1, <<>>, <<>>))

\* the file name without its extension
FileTitle == <<"a", "b">>

\* strings.TrimSpace(content) == ""
IsBlankFile(lines) == \A i \in 1..Len(lines) : lines[i].kind = "blank"

\* strings.TrimSpace(content): the lines from the first to the last that is
\* not blank
trimmedContent(lines) ==
    LET solid == {i \in 1..Len(lines) : lines[i].kind # "blank"}
    IN  [k \in 1..Cardinality({i \in 1..Len(lines) :
                                  /\ \E a \in solid : a <= i
                                  /\ \E b \in solid : i <= b}) |->
            k - 1 + CHOOSE a \in solid : \A b \in solid : a <= b]

\* parseFallbackSingleTask on a file without annotations
parseFallbackSingleTask(lines) ==
    IF IsBlankFile(lines) THEN ParseError("task file is empty")
    ELSE Parsed(<<[Title |-> FileTitle, Description |-> trimmedContent(lines),
                   Slug |-> toSlug(FileTitle)]>>)

\* parser.ParseFile on the lines of a file that could be opened
ParseFileLines(lines) ==
    LET first == parseStructuredLines(lines)
        second == parseCheckboxLines(lines)
    IN  IF first.err # "" THEN first
        ELSE IF Len(first.tasks) > 0 THEN first
        ELSE IF second.err # "" THEN second
        ELSE IF Len(second.tasks) > 0 THEN second
        ELSE parseFallbackSingleTask(lines)

\* the repositories the Manager's operations are called on: any entries for
\* the slugs a and b, each with its branch; the worktree of an entry is
\* registered with git or not, and its directory exists or not
ManagedSlugs == {<<"a">>, <<"b">>}
ManagedRepos ==
    {[manifest |-> [s \in S |-> NewEntry(s, PathOf(s), BranchOf(s), st[s])],
      worktrees |-> {[path |-> PathOf(s), branch |-> BranchOf(s)] : s \in R},
      dirs |-> {PathOf(s) : s \in D},
      branches |-> {BranchOf(s) : s \in S}] :
        S \in SUBSET ManagedSlugs, R \in SUBSET ManagedSlugs, D \in SUBSET ManagedSlugs,
        st \in [ManagedSlugs -> {"pending", "done"}]}

\* what a Manager operation returns (entry for GetEntry) and leaves behind
Outcome(err, entry, repo) == [err |-> err, entry |-> entry, repo |-> repo]

\* Manager.GetEntry with its error
ManagerGetEntry(repo, slug) ==
    IF GetEntry(repo.manifest, slug) = NoEntry
    THEN Outcome("no worktree entry found for slug", NoEntry, repo)
    ELSE Outcome("", GetEntry(repo.manifest, slug), repo)

\* variant: a slug without entry gets a new entry with the status
UpdateStatusUpserts(repo, slug, status) ==
    Outcome("", NoEntry,
            [repo EXCEPT !.manifest =
                saveEntry(@, IF slug \in DOMAIN @ THEN [@[slug] EXCEPT !.Status = status]
                             ELSE NewEntry(slug, <<>>, <<>>, status))])

\* Manager.UpdateStatus
UpdateStatus(repo, slug, status) ==
    IF ManagerGetEntry(repo, slug).err # ""
    THEN Outcome(ManagerGetEntry(repo, slug).err, NoEntry, repo)
    ELSE Outcome("", NoEntry,
                 [repo EXCEPT !.manifest =
                     saveEntry(@, [ManagerGetEntry(repo, slug).entry
                                      EXCEPT !.Status = status])])

\* git worktree remove --force path exits zero: the path is a registered
\* worktree (its directory may be missing) and nothing else fails (gitOk)
worktreeRemoveOk(repo, path, gitOk) == gitOk /\ isWorktree(repo.worktrees, path)

\* Manager.Destroy; gitOk is false when git fails for a reason of its own
Destroy(repo, slug, gitOk) ==
    IF ManagerGetEntry(repo, slug).err # ""
    THEN Outcome(ManagerGetEntry(repo, slug).err, NoEntry, repo)
    ELSE IF ~worktreeRemoveOk(repo, ManagerGetEntry(repo, slug).entry.Path, gitOk)
    THEN Outcome("git worktree remove failed", NoEntry, repo)
    ELSE Outcome("", NoEntry,
                 [manifest |-> removeEntry(repo.manifest, slug),
                  worktrees |-> {w \in repo.worktrees :
                                    w.path # ManagerGetEntry(repo, slug).entry.Path},
                  dirs |-> repo.dirs \ {ManagerGetEntry(repo, slug).entry.Path},
                  branches |-> repo.branches \ {ManagerGetEntry(repo, slug).entry.Branch}])

\* variant: a path exists when git lists it as a worktree
pathExistsForGit(repo, path) == isWorktree(repo.worktrees, path)

\* Prune: os.Stat(entry.Path) does not answer "not exist"
pathExists(repo, path) == path \in repo.dirs

\* Prune: the entries whose path does not exist
staleSlugs(repo) ==
    {s \in DOMAIN repo.manifest : ~pathExists(repo, repo.manifest[s].Path)}

\* Prune: removeEntry for each of the slugs, one at a time
RECURSIVE removeEntries(_, _)
removeEntries(man, slugs) ==
    IF slugs = {} THEN man
    ELSE LET s == CHOOSE x \in slugs : TRUE
         IN  removeEntries(removeEntry(man, s), slugs \ {s})

\* Manager.Prune: git worktree prune drops the registrations whose directory
\* is gone, then the stale entries leave the manifest; pruned is the set of
\* the slugs returned.  gitOk is false when git fails, saveOk when the first
\* removeEntry cannot write the manifest
Prune(repo, gitOk, saveOk) ==
    IF ~gitOk
    THEN [err |-> "git worktree prune failed", pruned |-> {}, repo |-> repo]
    ELSE LET afterGit == [repo EXCEPT !.worktrees = {w \in @ : w.path \in repo.dirs}]
         IN  IF staleSlugs(repo) # {} /\ ~saveOk
             THEN [err |-> "cannot write manifest", pruned |-> {}, repo |-> afterGit]
             ELSE [err |-> "", pruned |-> staleSlugs(repo),
                   repo |-> [afterGit EXCEPT !.manifest =
                                removeEntries(@, staleSlugs(repo))]]

\* A task file as text: a line is a sequence of characters ("Tasks" stands
\* for its letters).  The lines are an item marker ("- ", "1. " or none),
\* then a checkbox ("[ ] ", "[x] " or none), then a title; the "## Tasks"
\* heading; another "## " heading; and the empty line.
SectionHeader == <<"#", "#", " ", "Tasks">>
Markers == {<<>>, <<"-", " ">>, <<"1", ".", " ">>}
Boxes == {<<>>, <<"[", " ", "]", " ">>, <<"[", "x", "]", " ">>}
AnnotatedTexts ==
    {<<>>, <<"[model:m]">>, <<"a", " ", "[model:m]">>, <<"[title: ]">>,
     <<"[model:m]", " ", "[title:b]">>}
RawLineSet ==
    {m \o b \o t : m \in Markers, b \in Boxes, t \in ItemTitles}
    \cup {<<"-", " ">> \o t : t \in AnnotatedTexts}
    \cup {SectionHeader, <<"#", "#", " ", "a">>, <<>>}
RawFiles == SeqsUpTo(RawLineSet, MaxRawLines)

\* strings.HasPrefix
HasPrefix(s, prefix) ==
    Len(s) >= Len(prefix) /\ SubSeq(s, 1, Len(prefix)) = prefix

\* the end of a match of \s* from position i of s
RECURSIVE SkipSpaces(_, _)
SkipSpaces(s, i) ==
    IF i <= Len(s) /\ IsSpace(s[i]) THEN SkipSpaces(s, i + 1) ELSE i

\* the end of a match of \d+ from position i of s, 0 without a match
RECURSIVE SkipDigits(_, _)
SkipDigits(s, i) ==
    IF i <= Len(s) /\ s[i] \in {"1", "2"}
    THEN IF i + 1 <= Len(s) /\ s[i + 1] \in {"1", "2"} THEN SkipDigits(s, i + 1) ELSE i + 1
    ELSE 0

\* a match of \s+ at position i: where it ends, 0 without a match
SpacesAt(s, i) ==
    IF i >= 1 /\ i <= Len(s) /\ IsSpace(s[i]) THEN SkipSpaces(s, i) ELSE 0

\* bulletPattern ^[\s]*[-*]\s+ : the position after the match, 0 if none
matchBullet(s) ==
    LET i == SkipSpaces(s, 1)
    IN  IF i <= Len(s) /\ s[i] \in {"-", "*"} THEN SpacesAt(s, i + 1) ELSE 0

\* checkboxPattern ^[\s]*[-*]\s+\[([ xX])\]\s+ : the position after the match
\* and the marker, end 0 if there is no match
matchCheckbox(s) ==
    LET j == matchBullet(s)
    IN  IF /\ j > 0 /\ j + 2 <= Len(s)
           /\ s[j] = "[" /\ s[j + 1] \in {" ", "x", "X"} /\ s[j + 2] = "]"
        THEN [end |-> SpacesAt(s, j + 3), marker |-> s[j + 1]]
        ELSE [end |-> 0, marker |-> " "]

\* numberedPattern ^[\s]*\d+[.)]\s+ : the position after the match, 0 if none
matchNumbered(s) ==
    LET j == SkipDigits(s, SkipSpaces(s, 1))
    IN  IF j > 0 /\ j <= Len(s) /\ s[j] \in {".", ")"} THEN SpacesAt(s, j + 1) ELSE 0

\* strings.TrimSpace(pattern.ReplaceAllString(line, "")) for a match that
\* ends before position end
titleAfter(s, end) == TrimSpace(SubSeq(s, end, Len(s)))

\* what the scans make of a line of text, tried in the order of the code:
\* "## " heading, checkbox, bullet, numbered item, continuation
classify(s) ==
    IF HasPrefix(TrimSpace(s), <<"#", "#", " ">>)
    THEN [kind |-> IF TrimSpace(s) = SectionHeader THEN "section" ELSE "heading",
          title |-> <<>>]
    ELSE IF matchCheckbox(s).end > 0
    THEN [kind |-> IF matchCheckbox(s).marker \in {"x", "X"} THEN "closed" ELSE "open",
          title |-> titleAfter(s, matchCheckbox(s).end)]
    ELSE IF matchBullet(s) > 0
    THEN [kind |-> "bullet", title |-> titleAfter(s, matchBullet(s))]
    ELSE IF matchNumbered(s) > 0
    THEN [kind |-> "numbered", title |-> titleAfter(s, matchNumbered(s))]
    ELSE [kind |-> IF TrimSpace(s) = <<>> THEN "blank" ELSE "text", title |-> <<>>]

\* parser.ParseFile on a file given as text
ParseFileText(raw) == ParseFileLines([i \in 1..Len(raw) |-> classify(raw[i])])

\* the tasks written back: a "## Tasks" section with one bullet line per
\* task title
Serialise(ts) == <<SectionHeader>> \o [i \in 1..Len(ts) |-> <<"-", " ">> \o ts[i].Title]

\* parse, write back, parse again
Reparse(raw) ==
    LET first == ParseFileText(raw)
    IN  [first |-> first,
         second |-> IF first.err = "" THEN ParseFileText(Serialise(first.tasks)) ELSE first]

\* memory.IterationData handed to Write, and what the workspace holds before
OutputLens == {0, 10, MemTruncLen, MemTruncLen + 1}
IterationDatas ==
    [Iteration : 1..2, Task : {<<"a">>},
     WorkerOutput : {[len |-> n, marked |-> FALSE] : n \in OutputLens},
     ReviewerNotes : {"", "add tests"},
     Status : {"in-progress", "done", "failed"}]

\* ------------------------------------------------------ Run, before loops
loopVars == <<sem, wg, g, loopResults, results, invocations, reviews, workerFails, doneAt>>
gitVars == <<branches, worktrees, manifest, memory>>
inputVars == <<cfg, input, repo0>>
otherVars == <<titleCalls, prLogPath, issueTmp, call>>
libVars == <<titleCalls, prLogPath, call>>

\* variant: the error is noted and Run goes on
ReturnErrKeepsGoing(e) ==
    /\ phase' = phase
    /\ exitCode' = exitCode
    /\ setupErr' = e

\* Run returns an error: Execute prints it and exits 1
ReturnErr(e) ==
    /\ phase' = "exited"
    /\ exitCode' = 1
    /\ setupErr' = e

\* Run's deferred cleanup, registered once the issue body was fetched:
\* os.Remove(tmp) runs when Run returns, and is not run by os.Exit
deferredCleanup(returns) ==
    issueTmp' = IF returns /\ issueTmp = "exists" THEN "removed" ELSE issueTmp

\* checkDependencies
CheckDependencies ==
    /\ phase = "deps"
    /\ \/ /\ phase' = "resolve"
          /\ UNCHANGED <<exitCode, setupErr>>
       \/ ReturnErr("missing required tools")
    /\ UNCHANGED <<tasks, entries, idx, dispatched>>
    /\ UNCHANGED <<inputVars, otherVars, gitVars, loopVars>>

\* resolveTaskFile: with an issue number gh.FetchIssueTasks writes the issue
\* body to a temp file or fails; Run defers the cleanup of the temp file
ResolveTaskFile ==
    /\ phase = "resolve"
    /\ IF cfg.Issue
       THEN \/ ReturnErr("failed to fetch GitHub issue") /\ UNCHANGED issueTmp
            \/ /\ issueTmp' = "exists"
               /\ phase' = "parse"
               /\ UNCHANGED <<exitCode, setupErr>>
       ELSE /\ phase' = "parse"
            /\ UNCHANGED <<exitCode, setupErr, issueTmp>>
    /\ UNCHANGED <<tasks, entries, idx, dispatched>>
    /\ UNCHANGED <<inputVars, libVars, gitVars, loopVars>>

\* parser.ParseFile and the single-task filter
ParseFile ==
    /\ phase = "parse"
    /\ IF input.kind = "unreadable"
       THEN ReturnErr("cannot open task file") /\ UNCHANGED tasks
       ELSE IF input.kind = "empty"
       THEN ReturnErr("task file is empty") /\ UNCHANGED tasks
       ELSE LET parsed == parseStructuredTasks(input.titles)
                kept == IF cfg.TaskFilter = <<>> THEN parsed
                        ELSE filterBySlug(parsed, cfg.TaskFilter)
            IN  IF kept = <<>>
                THEN ReturnErr("no task found with slug") /\ UNCHANGED tasks
                ELSE /\ tasks' = kept
                     /\ phase' = "refine"
                     /\ UNCHANGED <<exitCode, setupErr>>
    /\ UNCHANGED <<entries, idx, dispatched>>
    /\ deferredCleanup(phase' = "exited")
    /\ UNCHANGED <<inputVars, libVars, gitVars, loopVars>>

\* Run step 3: when some slug has AiSlugMinLen bytes or more, every such
\* task gets a goroutine that calls agent.GenerateTitle and, on a non-empty
\* answer, replaces the task's slug; Run waits for all of them
RefineSlugs ==
    /\ phase = "refine"
    /\ LET long == {i \in TaskIds : Len(tasks[i].Slug) >= AiSlugMinLen}
       IN  /\ \E outs \in [long -> TitleOutcomes] :
                 tasks' = [i \in TaskIds |->
                             IF i \in long /\ outs[i] # <<>>
                             THEN [tasks[i] EXCEPT !.Slug = outs[i]]
                             ELSE tasks[i]]
           /\ titleCalls' = titleCalls + Cardinality(long)
    /\ phase' = "dryrun"
    /\ UNCHANGED <<exitCode, setupErr, entries, idx, dispatched, prLogPath, issueTmp, call>>
    /\ UNCHANGED <<inputVars, gitVars, loopVars>>

\* cfg.DryRun: printDryRun returns nil
DryRun ==
    /\ phase = "dryrun"
    /\ cfg.DryRun
    /\ phase' = "exited"
    /\ exitCode' = 0
    /\ UNCHANGED <<setupErr, tasks, entries, idx, dispatched>>
    /\ deferredCleanup(phase' = "exited")
    /\ UNCHANGED <<inputVars, libVars, gitVars, loopVars>>

\* os.Getwd, os.MkdirAll(cfg.LogDir), worktree.NewManager
Setup ==
    /\ phase = "dryrun"
    /\ ~cfg.DryRun
    /\ \/ /\ phase' = "create"
          /\ idx' = 1
          /\ UNCHANGED <<exitCode, setupErr>>
       \/ ReturnErr("cannot create log dir") /\ UNCHANGED idx
    /\ UNCHANGED <<tasks, entries, dispatched>>
    /\ deferredCleanup(phase' = "exited")
    /\ UNCHANGED <<inputVars, libVars, gitVars, loopVars>>

\* wm.Create fails: the base ref is missing or git worktree add fails
\* (it always fails when resolveBranch ran out of names)
CreateFails ==
    /\ phase = "create"
    /\ idx <= N
    /\ ReturnErr("worktree create failed")
    /\ UNCHANGED <<tasks, entries, idx, dispatched>>
    /\ deferredCleanup(phase' = "exited")
    /\ UNCHANGED <<inputVars, libVars, gitVars, loopVars>>

\* wm.Create, the path is a registered worktree: reuse it
CreateReuse ==
    /\ phase = "create"
    /\ idx <= N
    /\ LET slug == tasks[idx].Slug
           path == PathOf(slug)
       IN  /\ isWorktree(worktrees, path)
           /\ LET entry == NewEntry(slug, path, getWorktreeBranch(worktrees, path), "pending")
              IN  /\ manifest' = saveEntry(manifest, entry)
                  /\ entries' = Append(entries, entry)
    /\ idx' = idx + 1
    /\ UNCHANGED <<phase, exitCode, setupErr, tasks, dispatched>>
    /\ UNCHANGED <<inputVars, otherVars, branches, worktrees, memory, loopVars>>

\* wm.Create, a new worktree on a new branch
CreateNew ==
    /\ phase = "create"
    /\ idx <= N
    /\ LET slug == tasks[idx].Slug
           path == PathOf(slug)
           branch == resolveBranch(BranchOf(slug), branches)
           entry == NewEntry(slug, path, branch, "pending")
       IN  /\ ~isWorktree(worktrees, path)
           /\ branch \notin branches
           /\ worktrees' = worktrees \cup {[path |-> path, branch |-> branch]}
           /\ branches' = branches \cup {branch}
           /\ memory' = [p \in DOMAIN memory \ {path} |-> memory[p]]
           /\ manifest' = saveEntry(manifest, entry)
           /\ entries' = Append(entries, entry)
    /\ idx' = idx + 1
    /\ UNCHANGED <<phase, exitCode, setupErr, tasks, dispatched>>
    /\ UNCHANGED <<inputVars, otherVars, loopVars>>

\* Run step 6: the result arrays are made and the loops are started, one
\* after the other (cfg.Sequential) or one goroutine per task
LaunchLoops ==
    /\ phase = "create"
    /\ idx > N
    /\ phase' = "loops"
    /\ results' = [t \in TaskIds |-> ZeroResult]
    /\ loopResults' = [t \in TaskIds |-> ZeroLoopResult]
    /\ dispatched' = [t \in TaskIds |-> "none"]
    /\ invocations' = [t \in TaskIds |-> 0]
    /\ reviews' = [t \in TaskIds |-> 0]
    /\ workerFails' = [t \in TaskIds |-> 0]
    /\ doneAt' = [t \in TaskIds |-> 0]
    /\ prLogPath' = [t \in TaskIds |-> <<>>]
    /\ IF cfg.Sequential
       THEN /\ idx' = 1
            /\ wg' = 0
            /\ g' = [t \in TaskIds |->
                       [ZeroLocals EXCEPT !.pc = IF t = 1 THEN "status1_get" ELSE "idle"]]
       ELSE /\ idx' = 0
            /\ wg' = N
            /\ g' = [t \in TaskIds |->
                       [ZeroLocals EXCEPT !.pc = IF semOn THEN "acquire" ELSE "status1_get"]]
    /\ UNCHANGED <<exitCode, setupErr, tasks, entries, sem>>
    /\ UNCHANGED <<inputVars, titleCalls, issueTmp, call, gitVars>>

\* ------------------------------------------------------- one task's steps
\* the goroutine body (parallel) or the for loop's body (sequential) of task t

\* sem <- struct{}{}
Acquire(t) ==
    /\ phase = "loops"
    /\ g[t].pc = "acquire"
    /\ semHasRoom(sem, cfg.MaxWorktrees)
    /\ sem' = sem + 1
    /\ g' = [g EXCEPT ![t].pc = "status1_get"]
    /\ UNCHANGED <<phase, exitCode, setupErr, tasks, entries, idx, dispatched>>
    /\ UNCHANGED <<inputVars, otherVars, gitVars, wg, loopResults, results, invocations, reviews, workerFails, doneAt>>

\* the goroutine of task t ends (wg.Done), or the sequential for loop
\* moves on to its next index
TaskEnds(gg, t) ==
    IF cfg.Sequential
    THEN LET nxt == seqNext(t, results[t].Success)
         IN  /\ idx' = nxt
             /\ g' = [u \in TaskIds |->
                        IF u = t THEN [gg[u] EXCEPT !.pc = "done"]
                        ELSE IF u = nxt THEN [gg[u] EXCEPT !.pc = "status1_get"]
                        ELSE gg[u]]
             /\ UNCHANGED <<sem, wg>>
    ELSE IF semOn
    THEN /\ g' = [gg EXCEPT ![t].pc = "release"]
         /\ UNCHANGED <<sem, wg, idx>>
    ELSE /\ g' = [gg EXCEPT ![t].pc = "done"]
         /\ wg' = wg - 1
         /\ UNCHANGED <<sem, idx>>

\* wm.UpdateStatus, first half: GetEntry loads the manifest and looks the
\* slug up; on "not found" UpdateStatus returns the error, which Run drops
StatusGet(t) ==
    /\ phase = "loops"
    /\ g[t].pc \in {"status1_get", "status2_get"}
    /\ LET e == GetEntry(manifest, tasks[t].Slug)
           first == g[t].pc = "status1_get"
       IN  IF e # NoEntry
           THEN /\ g' = [g EXCEPT ![t].entry = e,
                                  ![t].pc = IF first THEN "status1_save" ELSE "status2_save"]
                /\ UNCHANGED <<sem, wg, idx>>
           ELSE IF first
           THEN /\ g' = [g EXCEPT ![t].pc = "enter"]
                /\ UNCHANGED <<sem, wg, idx>>
           ELSE TaskEnds(g, t)
    /\ UNCHANGED <<phase, exitCode, setupErr, tasks, entries, dispatched>>
    /\ UNCHANGED <<inputVars, otherVars, gitVars, loopResults, results, invocations, reviews, workerFails, doneAt>>

\* wm.UpdateStatus, second half: entry.Status = status; saveEntry(entry).
\* The status is "running" before the loop and statusStr(success) after it.
StatusSave(t) ==
    /\ phase = "loops"
    /\ g[t].pc \in {"status1_save", "status2_save"}
    /\ LET first == g[t].pc = "status1_save"
           status == IF first THEN "running" ELSE statusStr(results[t].Success)
           gg == [g EXCEPT ![t].entry = NoEntry]
       IN  /\ manifest' = saveEntry(manifest, [g[t].entry EXCEPT !.Status = status])
           /\ IF first
              THEN /\ g' = [gg EXCEPT ![t].pc = "enter"]
                   /\ UNCHANGED <<sem, wg, idx>>
              ELSE TaskEnds(gg, t)
    /\ UNCHANGED <<phase, exitCode, setupErr, tasks, entries, dispatched>>
    /\ UNCHANGED <<inputVars, otherVars, branches, worktrees, memory>>
    /\ UNCHANGED <<loopResults, results, invocations, reviews, workerFails, doneAt>>

\* variant: every goroutine writes the slot of the first task
resultSlotShared(i) == 1

\* go func(idx int, ...) {...}(i, t, entries[i]): the goroutine started for
\* tasks[i] writes loopResults[idx] and results[idx] with idx = i
resultSlot(i) == i

\* runRalphLoop is called: maxIter is settled, iter := 1 and the for
\* condition is tested; a loop that runs no iteration returns zero values
LoopEnter(t) ==
    /\ phase = "loops"
    /\ g[t].pc = "enter"
    /\ IF loopContinues(FALSE, 0, maxIterOf(cfg.MaxIterations))
       THEN /\ g' = [g EXCEPT ![t].pc = "iter", ![t].iter = 1]
            /\ UNCHANGED <<loopResults, results>>
       ELSE /\ g' = [g EXCEPT ![t].pc = "status2_get"]
            /\ loopResults' = [loopResults EXCEPT ![resultSlot(t)] = ZeroLoopResult]
            /\ results' = [results EXCEPT ![resultSlot(t)] = ZeroResult]
    /\ UNCHANGED <<phase, exitCode, setupErr, tasks, entries, idx, dispatched>>
    /\ UNCHANGED <<inputVars, otherVars, gitVars, sem, wg, invocations, reviews, workerFails, doneAt>>

\* agent.Invoke: the log file of an invocation
agentLogPath(slug, iteration, maxIterations) ==
    IF maxIterations > 1 THEN slug \o <<"-iter">> \o Digits(iteration) \o <<".log">>
    ELSE slug \o <<".log">>

\* runRalphLoop, top of an iteration: memory.Load, then agent.Invoke writes
\* its log file and returns
IterBegin(t) ==
    /\ phase = "loops"
    /\ g[t].pc = "iter"
    /\ \E r \in WorkerResults :
          /\ g' = [g EXCEPT ![t].memCtx = Load(memory, entries[t].Path),
                            ![t].lastMemCtx = Load(memory, entries[t].Path),
                            ![t].iterations = g[t].iter,
                            ![t].result = r,
                            ![t].notes = "",
                            ![t].done = FALSE,
                            ![t].reviewed = "none",
                            ![t].logPath = agentLogPath(tasks[t].Slug, g[t].iter,
                                                        maxIterOf(cfg.MaxIterations)),
                            ![t].pc = IF cfg.Reviewer /\ r.Success THEN "review" ELSE "write"]
          /\ workerFails' = [workerFails EXCEPT ![t] = IF r.Success THEN @ ELSE @ + 1]
    /\ invocations' = [invocations EXCEPT ![t] = @ + 1]
    /\ UNCHANGED <<phase, exitCode, setupErr, tasks, entries, idx, dispatched>>
    /\ UNCHANGED <<inputVars, otherVars, gitVars, sem, wg, loopResults, results, reviews, doneAt>>

\* variant: a reviewer error counts as a DONE verdict
verdictDoneOnError(d) == IF d.err THEN TRUE ELSE d.Done

\* runRalphLoop: done after reviewer.Review returned; an error leaves it false
verdictDone(d) == IF d.err THEN FALSE ELSE d.Done

\* runRalphLoop: reviewer.Review returns an error or a Decision
Review(t) ==
    /\ phase = "loops"
    /\ g[t].pc = "review"
    /\ \E d \in ReviewOutcomes :
          /\ g' = [g EXCEPT ![t].notes = IF d.err THEN @ ELSE d.Feedback,
                            ![t].done = verdictDone(d),
                            ![t].reviewed = IF d.err THEN "error"
                                            ELSE IF d.Done THEN "DONE" ELSE "RETRY",
                            ![t].pc = "write"]
          /\ doneAt' = [doneAt EXCEPT ![t] =
                          IF ~d.err /\ d.Done /\ @ = 0 THEN g[t].iter ELSE @]
    /\ reviews' = [reviews EXCEPT ![t] = @ + 1]
    /\ UNCHANGED <<phase, exitCode, setupErr, tasks, entries, idx, dispatched>>
    /\ UNCHANGED <<inputVars, otherVars, gitVars, sem, wg, loopResults, results, invocations, workerFails>>

\* runRalphLoop, end of an iteration: done and status are settled, memory is
\* written and read back, and the loop goes on or returns its LoopResult
IterEnd(t) ==
    /\ phase = "loops"
    /\ g[t].pc = "write"
    /\ LET l == g[t]
           maxIter == maxIterOf(cfg.MaxIterations)
           done == loopDone(l.result.Success, cfg.Reviewer, l.done)
           status == iterStatus(l.result.Success, done, l.iter, maxIter)
           data == [Iteration |-> l.iter, Task |-> tasks[t].Title,
                    WorkerOutput |-> l.result.Output,
                    ReviewerNotes |-> l.notes, Status |-> status]
           mem2 == Write(memory, entries[t].Path, data)
       IN  /\ memory' = mem2
           /\ IF loopContinues(done, l.iter, maxIter)
              THEN /\ g' = [g EXCEPT ![t].pc = "iter", ![t].iter = l.iter + 1,
                                     ![t].done = done,
                                     ![t].lastMemCtx = Load(mem2, entries[t].Path)]
                   /\ UNCHANGED <<loopResults, results>>
              ELSE /\ g' = [g EXCEPT ![t].pc = "status2_get", ![t].done = done,
                                     ![t].lastMemCtx = Load(mem2, entries[t].Path)]
                   /\ loopResults' = [loopResults EXCEPT ![resultSlot(t)] =
                                        [FinalWorkerResult |-> l.result,
                                         Iterations |-> l.iterations,
                                         FinalMemory |-> Load(mem2, entries[t].Path)]]
                   /\ results' = [results EXCEPT ![resultSlot(t)] = l.result]
    /\ UNCHANGED <<phase, exitCode, setupErr, tasks, entries, idx, dispatched>>
    /\ UNCHANGED <<inputVars, otherVars, branches, worktrees, manifest>>
    /\ UNCHANGED <<sem, wg, invocations, reviews, workerFails, doneAt>>

\* the deferred <-sem and wg.Done of a goroutine that holds a token
Release(t) ==
    /\ phase = "loops"
    /\ g[t].pc = "release"
    /\ sem' = semRelease(sem)
    /\ wg' = wg - 1
    /\ g' = [g EXCEPT ![t].pc = "done"]
    /\ UNCHANGED <<phase, exitCode, setupErr, tasks, entries, idx, dispatched>>
    /\ UNCHANGED <<inputVars, otherVars, gitVars, loopResults, results, invocations, reviews, workerFails, doneAt>>

\* variant: wg.Wait does not block
wgWaitReturnsAtOnce(counter) == TRUE

\* wg.Wait returns when the counter is zero
wgWait(counter) == counter = 0

\* wg.Wait returns, or the sequential for loop has run out
Join ==
    /\ phase = "loops"
    /\ IF cfg.Sequential THEN idx > N ELSE wgWait(wg)
    /\ phase' = "dispatch"
    /\ idx' = 1
    /\ UNCHANGED <<exitCode, setupErr, tasks, entries, dispatched>>
    /\ UNCHANGED <<inputVars, otherVars, gitVars, loopVars>>

\* ------------------------------------------------------- Run, after loops
\* variant: the output of a failed task is dispatched too
shouldDispatchAll(result) == TRUE

\* Run steps 7 and 8: a task whose agent failed is skipped
shouldDispatch(result) == result.Success

\* Run step 8: the log whose tail goes into the PR body
prLogPathOf(slug, iterations) ==
    IF iterations > 1 THEN slug \o <<"-iter">> \o Digits(iterations) \o <<".log">>
    ELSE slug \o <<".log">>

\* output.Handle: nil or an error; the handlers of file and research-report
\* write a file, the stubs do nothing, any other mode is "unknown output mode"
HandleOutcomes(mode) ==
    IF mode \in {"file", "research-report"} THEN {"written", "output failed"}
    ELSE IF ValidMode(mode) THEN {"written"}
    ELSE {"output failed"}

\* Run step 7, one task, for an output mode other than pr: skipped when the
\* agent failed; otherwise output.Handle, whose error is only printed
OutputTask ==
    /\ phase = "dispatch"
    /\ cfg.OutputMode # "pr"
    /\ idx <= N
    /\ IF ~shouldDispatch(results[idx])
       THEN dispatched' = [dispatched EXCEPT ![idx] = "skipped"]
       ELSE \E o \in HandleOutcomes(cfg.OutputMode) :
               dispatched' = [dispatched EXCEPT ![idx] = o]
    /\ idx' = idx + 1
    /\ UNCHANGED <<phase, exitCode, setupErr, tasks, entries>>
    /\ UNCHANGED <<inputVars, otherVars, gitVars, loopVars>>

\* Run step 8, one task: skipped when the agent failed; otherwise
\* gh.PushBranch and, with the log path, gh.CreatePR, either of which may fail
DispatchTask ==
    /\ phase = "dispatch"
    /\ cfg.CreatePRs /\ cfg.OutputMode = "pr"
    /\ idx <= N
    /\ IF ~shouldDispatch(results[idx])
       THEN /\ dispatched' = [dispatched EXCEPT ![idx] = "skipped"]
            /\ UNCHANGED prLogPath
       ELSE \E o \in {"push failed", "pr failed", "pr created"} :
               /\ dispatched' = [dispatched EXCEPT ![idx] = o]
               /\ prLogPath' = [prLogPath EXCEPT ![idx] =
                                   IF o = "push failed" THEN @
                                   ELSE prLogPathOf(tasks[idx].Slug,
                                                    loopResults[idx].Iterations)]
    /\ idx' = idx + 1
    /\ UNCHANGED <<phase, exitCode, setupErr, tasks, entries>>
    /\ UNCHANGED <<inputVars, titleCalls, issueTmp, call, gitVars, loopVars>>

\* the dispatch loop is over, or there is nothing to dispatch
DispatchEnd ==
    /\ phase = "dispatch"
    /\ (cfg.OutputMode = "pr" /\ ~cfg.CreatePRs) \/ idx > N
    /\ phase' = "cleanup"
    /\ idx' = 1
    /\ UNCHANGED <<exitCode, setupErr, tasks, entries, dispatched>>
    /\ UNCHANGED <<inputVars, otherVars, gitVars, loopVars>>

\* Run step 9, one task: wm.Destroy(slug); its error is only a warning.
\* Destroy: GetEntry, git worktree remove --force, git branch -D, removeEntry
CleanupTask ==
    /\ phase = "cleanup"
    /\ ~cfg.KeepWorktrees
    /\ idx <= N
    /\ LET e == GetEntry(manifest, tasks[idx].Slug)
       IN  \/ /\ e # NoEntry
              /\ isWorktree(worktrees, e.Path)
              /\ worktrees' = {w \in worktrees : w.path # e.Path}
              /\ memory' = [p \in DOMAIN memory \ {e.Path} |-> memory[p]]
              /\ branches' = branches \ {e.Branch}
              /\ manifest' = removeEntry(manifest, tasks[idx].Slug)
           \/ \* unknown slug, or git worktree remove fails
              UNCHANGED gitVars
    /\ idx' = idx + 1
    /\ UNCHANGED <<phase, exitCode, setupErr, tasks, entries, dispatched>>
    /\ UNCHANGED <<inputVars, otherVars, loopVars>>

\* the cleanup loop is over, or the worktrees are kept
CleanupEnd ==
    /\ phase = "cleanup"
    /\ cfg.KeepWorktrees \/ idx > N
    /\ phase' = "summary"
    /\ UNCHANGED <<exitCode, setupErr, tasks, entries, idx, dispatched>>
    /\ UNCHANGED <<inputVars, otherVars, gitVars, loopVars>>

\* variant: the exit status is 1 only when every result is a failure
exitStatusAllFailed(res) == IF \A t \in DOMAIN res : ~res[t].Success THEN 1 ELSE 0

\* Run step 10: os.Exit(1) if any result is a failure, else return nil
exitStatus(res) == IF \E t \in DOMAIN res : ~res[t].Success THEN 1 ELSE 0

\* Run step 10: printSummary, then the exit status
SummaryExit ==
    /\ phase = "summary"
    /\ phase' = "exited"
    /\ exitCode' = exitStatus(results)
    /\ UNCHANGED <<setupErr, tasks, entries, idx, dispatched>>
    /\ deferredCleanup(exitStatus(results) = 0)
    /\ UNCHANGED <<inputVars, libVars, gitVars, loopVars>>

Next ==
    \/ CheckDependencies
    \/ ResolveTaskFile
    \/ ParseFile
    \/ RefineSlugs
    \/ DryRun
    \/ Setup
    \/ CreateFails
    \/ CreateReuse
    \/ CreateNew
    \/ LaunchLoops
    \/ \E t \in TaskIds : Acquire(t)
    \/ \E t \in TaskIds : StatusGet(t)
    \/ \E t \in TaskIds : StatusSave(t)
    \/ \E t \in TaskIds : LoopEnter(t)
    \/ \E t \in TaskIds : IterBegin(t)
    \/ \E t \in TaskIds : Review(t)
    \/ \E t \in TaskIds : IterEnd(t)
    \/ \E t \in TaskIds : Release(t)
    \/ Join
    \/ OutputTask
    \/ DispatchTask
    \/ DispatchEnd
    \/ CleanupTask
    \/ CleanupEnd
    \/ SummaryExit

Spec == Init /\ [][Next]_vars

\* the configurations explored under fairness: no --task filter, the
\* post-loop options at their defaults or skipping both post-loop phases,
\* and the reviewer's verdicts in sequential runs
FairConfigs ==
    {c \in Configs :
        /\ c.TaskFilter = <<>>
        /\ c.KeepWorktrees = ~c.CreatePRs
        /\ ~LoopDefaults(c) => c.KeepWorktrees
        /\ c.Reviewer => c.Sequential}

FairInit == InitOver(FairConfigs, Inputs)

\* the scheduler runs every goroutine that can take a step, and every agent
\* and reviewer invocation returns
FairSpec == FairInit /\ [][Next]_vars /\ WF_vars(Next)

\* ------------------------------------------- library functions on their own
\* one call of a library function on an input of its domain, outside a run
runVars == <<phase, exitCode, setupErr, tasks, entries, idx, dispatched, titleCalls,
            prLogPath, issueTmp>>

Called(fn, arg, out) ==
    /\ call' = [fn |-> fn, arg |-> arg, out |-> out]
    /\ UNCHANGED <<runVars, inputVars, gitVars, loopVars>>

CallToSlug ==
    /\ call = NoCall
    /\ \E s \in SlugInputs : Called("toSlug", s, toSlug(s))

CallResolveBranch ==
    /\ call = NoCall
    /\ \E existing \in ResolveInputs :
          Called("resolveBranch", existing, resolveBranch(BranchOf(<<"a">>), existing))

CallParseDecision ==
    /\ call = NoCall
    /\ \E output \in SeqsUpTo(ReviewSyms, MaxReviewLen) :
          Called("parseDecision", output, parseDecision(output))

\* memory.Write on a workspace that is fresh or holds the files of an
\* earlier iteration, then memory.Load
CallWriteLoad ==
    /\ call = NoCall
    /\ \E data \in IterationDatas :
       \E before \in {[p \in {} |-> EmptyContext]}
                     \cup {[p \in {PathOf(<<"a">>)} |-> WriteFiles(d)] :
                              d \in {e \in IterationDatas :
                                        /\ e.Iteration = 1
                                        /\ e.ReviewerNotes # ""
                                        /\ e.Status = "in-progress"
                                        /\ e.WorkerOutput.len = 10}} :
          Called("WriteLoad", [before |-> before, data |-> data],
                 Load(Write(before, PathOf(<<"a">>), data), PathOf(<<"a">>)))

\* the four memory files, by the field of memory.Context that holds them
MemoryFiles == {"Progress", "Memory", "Agents", "Feedback"}

\* memory.Write returns at the first os.WriteFile that fails: the files of
\* written, which the range over the map reached before, hold the new
\* content; the file that failed is as it was or was left empty (truncated);
\* the others are as they were
WriteFailing(ctx, data, written, failed, truncated) ==
    [f \in MemoryFiles |->
        IF f \in written THEN WriteFiles(data)[f]
        ELSE IF f = failed /\ truncated THEN <<>>
        ELSE ctx[f]]

\* the workspace memory.Write is called on: the files of iteration 1
FirstIterationFiles ==
    WriteFiles([Iteration |-> 1, Task |-> <<"a">>,
                WorkerOutput |-> [len |-> 10, marked |-> FALSE],
                ReviewerNotes |-> "add tests", Status |-> "in-progress"])

\* memory.Write for iteration 2, every os.WriteFile succeeding or one of
\* them failing, in any order of the files
CallWrite ==
    /\ call = NoCall
    /\ \E data \in {d \in IterationDatas : d.Iteration = 2} :
       \E written \in SUBSET MemoryFiles :
          LET path == PathOf(<<"a">>)
              before == [p \in {path} |-> FirstIterationFiles]
              arg == [before |-> FirstIterationFiles, data |-> data]
          IN  IF written = MemoryFiles
              THEN Called("Write", arg,
                          [err |-> "", after |-> Load(Write(before, path, data), path)])
              ELSE \E failed \in MemoryFiles \ written : \E truncated \in BOOLEAN :
                      Called("Write", arg,
                             [err |-> "memory.Write: cannot write",
                              after |-> WriteFailing(FirstIterationFiles, data,
                                                     written, failed, truncated)])

\* parseStructuredTasks and parseCheckboxTasks, each on its own
CallParseStructuredTasks ==
    /\ call = NoCall
    /\ \E lines \in Files \cup SectionFiles :
          Called("parseStructuredTasks", lines, parseStructuredLines(lines))

CallParseCheckboxTasks ==
    /\ call = NoCall
    /\ \E lines \in Files :
          Called("parseCheckboxTasks", lines, parseCheckboxLines(lines))

\* GetEntry, UpdateStatus and Destroy on a repository, for a slug with or
\* without entry
CallManager ==
    /\ call = NoCall
    /\ \E repo \in ManagedRepos, slug \in ManagedSlugs :
          \/ Called("GetEntry", [repo |-> repo, slug |-> slug],
                    ManagerGetEntry(repo, slug))
          \/ \E status \in {"running", "done", "failed"} :
                Called("UpdateStatus", [repo |-> repo, slug |-> slug],
                       UpdateStatus(repo, slug, status))
          \/ \E gitOk \in BOOLEAN :
                Called("Destroy", [repo |-> repo, slug |-> slug, gitOk |-> gitOk],
                       Destroy(repo, slug, gitOk))

\* mochi prune: Manager.Prune on a repository
CallPrune ==
    /\ call = NoCall
    /\ \E repo \in ManagedRepos, gitOk \in BOOLEAN, saveOk \in BOOLEAN :
          Called("Prune", [repo |-> repo, gitOk |-> gitOk, saveOk |-> saveOk],
                 Prune(repo, gitOk, saveOk))

\* ParseFile, the tasks written back, ParseFile again
CallReparse ==
    /\ call = NoCall
    /\ \E raw \in RawFiles : Called("Reparse", raw, Reparse(raw))

CallParseFile ==
    /\ call = NoCall
    /\ \E lines \in Files : Called("ParseFile", lines, ParseFileLines(lines))

PureNext ==
    \/ CallToSlug
    \/ CallResolveBranch
    \/ CallParseDecision
    \/ CallWriteLoad
    \/ CallParseFile
    \/ CallParseStructuredTasks
    \/ CallParseCheckboxTasks
    \/ CallReparse
    \/ CallManager
    \/ CallPrune
    \/ CallWrite

PureInit ==
    /\ InitOver(Configs, Inputs)
    /\ ~cfg.Issue
    /\ cfg.DryRun
    /\ cfg.TaskFilter = <<>>
    /\ input.kind = "empty"
    /\ repo0.branches = {}

PureSpec == PureInit /\ [][PureNext]_vars

\* ================================================================= claims
Launched == DOMAIN g
Returned(t) == g[t].pc \in {"status2_get", "status2_save", "release", "done"}
SlugsDistinct == \A i, j \in TaskIds : i # j => tasks[i].Slug # tasks[j].Slug
MaxIter == maxIterOf(cfg.MaxIterations)

\* C1: in parallel mode with max-workspaces = N >= 1 the number of
\* refinement loops in flight never exceeds N
C1_ConcurrencyBound ==
    (~cfg.Sequential /\ cfg.MaxWorktrees >= 1) =>
        Cardinality(InFlight) <= cfg.MaxWorktrees

\* the ceiling is reached while another task waits for a slot
C1_Witness ==
    /\ phase = "loops"
    /\ semOn
    /\ Cardinality(InFlight) = cfg.MaxWorktrees
    /\ \E t \in Launched : g[t].pc = "acquire"

\* C2: the loop invokes the worker at least once and at most
\* max(1, max-iterations) times, and LoopResult.Iterations is the number of
\* worker invocations made
C2_LoopTermination ==
    \A t \in Launched :
        /\ invocations[t] <= MaxIter
        /\ Returned(t) =>
              /\ invocations[t] >= 1
              /\ loopResults[t].Iterations = invocations[t]

\* a loop has returned after using all of max-iterations >= 2
C2_Witness ==
    \E t \in Launched :
        /\ Returned(t)
        /\ cfg.MaxIterations >= 2
        /\ loopResults[t].Iterations = cfg.MaxIterations
        /\ invocations[t] = cfg.MaxIterations

\* C3: the exit status is non-zero iff a task's final worker result is a
\* failure or a setup error occurred; dispatch and cleanup failures do not
\* change it, and a dry run exits zero
C3_ExitCodeLaw ==
    phase = "exited" =>
        /\ exitCode \in {0, 1}
        /\ exitCode # 0 <=>
              (setupErr # "" \/ \E t \in DOMAIN results : ~results[t].Success)
        /\ (cfg.DryRun /\ setupErr = "") => exitCode = 0

\* a run exits zero although a push or pull request failed and a worktree
\* could not be removed
C3_Witness ==
    /\ phase = "exited"
    /\ exitCode = 0
    /\ \E t \in DOMAIN dispatched : dispatched[t] \in {"push failed", "pr failed"}
    /\ ~cfg.KeepWorktrees
    /\ worktrees # {}

\* C4: the entries create returns for two different tasks never share a
\* path or a branch
C4_WorkspaceUnique ==
    \A i, j \in 1..Len(entries) :
        i # j => /\ entries[i].Path # entries[j].Path
                 /\ entries[i].Branch # entries[j].Branch

\* C5: an operation that loads the manifest and later saves it holds the
\* mutex from the load to the save: while update-status of one task stands
\* between its load and its save, no other operation writes the manifest
C5_LockCoversLoadToSave ==
    [][\A t \in Launched :
          (/\ g[t].pc \in {"status1_save", "status2_save"}
           /\ g'[t].pc = g[t].pc) => manifest' = manifest]_vars

\* what update-status last wrote for task t, "pending" before its first write
LastWritten(t) ==
    IF g[t].pc \in {"idle", "acquire", "status1_get", "status1_save"} THEN "pending"
    ELSE IF g[t].pc \in {"release", "done"} THEN statusStr(results[t].Success)
    ELSE "running"

\* C6: with pairwise different slugs no update-status is lost: every slug's
\* entry carries the status last written for it and the path and branch
\* create recorded, and the entries of other slugs are neither changed nor
\* dropped
C6_NoLostUpdate ==
    (phase \in {"loops", "dispatch"} /\ SlugsDistinct) =>
        /\ \A t \in Launched :
              /\ tasks[t].Slug \in DOMAIN manifest
              /\ manifest[tasks[t].Slug] = [entries[t] EXCEPT !.Status = LastWritten(t)]
        /\ \A s \in DOMAIN repo0.manifest \ {tasks[t].Slug : t \in TaskIds} :
              /\ s \in DOMAIN manifest
              /\ manifest[s] = repo0.manifest[s]

\* two goroutines have written their final status, one done and one failed,
\* next to the entry of an earlier run
C6_Witness ==
    /\ phase = "dispatch"
    /\ ~cfg.Sequential
    /\ SlugsDistinct
    /\ repo0.manifest # [s \in {} |-> OldEntry]
    /\ \E t, u \in TaskIds :
          /\ manifest[tasks[t].Slug].Status = "done"
          /\ manifest[tasks[u].Slug].Status = "failed"

Contains(blob, text) == text = "" \/ (blob # <<>> /\ blob[3] = text)

C9_NoDoneMeansFailed ==
    \A t \in Launched :
        (cfg.Reviewer /\ g[t].pc = "done" /\ doneAt[t] = 0) =>
            /\ ~results[t].Success
            /\ phase \in {"loops", "dispatch"} =>
                  manifest[tasks[t].Slug].Status = "failed"
            /\ phase = "exited" => exitCode = 1

\* every task's goroutine has run its loop and ended, and every slot is back
AllLoopsCompleted ==
    /\ phase = "dispatch"
    /\ sem = 0
    /\ wg = 0
    /\ \A t \in TaskIds : g[t].pc = "done" /\ invocations[t] >= 1

\* C7: in parallel mode with a ceiling N >= 1 and more than N tasks, under
\* fair scheduling and returning invocations, every task acquires a slot,
\* runs its loop and releases the slot, and the run reaches the join with
\* all tasks completed
C7_CeilingLiveness ==
    (phase = "loops" /\ ~cfg.Sequential /\ semOn) ~> AllLoopsCompleted

\* the join is passed after more tasks than slots have each held a slot
C7_Witness ==
    /\ phase = "dispatch"
    /\ ~cfg.Sequential
    /\ semOn
    /\ N > cfg.MaxWorktrees
    /\ sem = 0
    /\ \A t \in TaskIds : g[t].pc = "done" /\ invocations[t] >= 1

\* C10: there is no cross-task cancellation: in sequential and in parallel
\* mode, once the loops are launched every task's own loop is started and
\* runs to its end, whatever the results of the other tasks
C10_NoCrossTaskCancellation ==
    \A t \in 1..MaxTasks :
        (phase = "loops" /\ t \in Launched) ~>
            (t \in Launched /\ g[t].pc = "done" /\ invocations[t] >= 1)

\* in sequential mode a task has run to a successful end after the task
\* before it failed
C10_Witness ==
    /\ phase = "dispatch"
    /\ cfg.Sequential
    /\ \E t, u \in TaskIds :
          /\ t < u
          /\ ~results[t].Success
          /\ results[u].Success
          /\ invocations[u] >= 1

\* ------------------------------------------------- creation and clean-up
\* the workspace at a path exists
WorkspaceExists(path) == \E w \in worktrees : w.path = path

\* C11: when create fails for a task the run aborts with an error: no loop
\* is started, no manifest status is running, and the workspaces created
\* before the failure still exist with their entries at status pending
C11_CreateFailureAborts ==
    setupErr = "worktree create failed" =>
        /\ phase = "exited"
        /\ exitCode = 1
        /\ g = <<>>
        /\ invocations = <<>>
        /\ \A s \in DOMAIN manifest : manifest[s].Status # "running"
        /\ \A i \in 1..Len(entries) :
              /\ \E w \in worktrees :
                    w.path = entries[i].Path /\ w.branch = entries[i].Branch
              /\ entries[i].Slug \in DOMAIN manifest
              /\ manifest[entries[i].Slug] = entries[i]
              /\ entries[i].Status = "pending"

\* create failed for the second task after the first workspace was made
C11_Witness ==
    /\ setupErr = "worktree create failed"
    /\ phase = "exited"
    /\ Len(entries) = 1
    /\ N = 2

\* the run went through all of its steps
RunFinished == phase = "exited" /\ setupErr = "" /\ ~cfg.DryRun

C16_DryRunChangesNothing ==
    (cfg.DryRun /\ phase = "exited" /\ setupErr = "") =>
        /\ exitCode = 0
        /\ worktrees = {}
        /\ branches = repo0.branches
        /\ manifest = repo0.manifest
        /\ DOMAIN memory = {}
        /\ g = <<>>
        /\ invocations = <<>>
        /\ reviews = <<>>
        /\ titleCalls = 0

C17_FirstVerdictWins ==
    call.fn = "parseDecision" =>
        LET lines == SplitLines(call.arg)
            trimmed(i) == TrimSpace(lines[i])
            isDone(i) == ToUpper(trimmed(i)) = <<"DONE">>
            isRetry(i) == trimmed(i) # <<>> /\ UpperSym(Head(trimmed(i))) = "RETRY:"
            qualifying == {i \in 1..Len(lines) : isDone(i) \/ isRetry(i)}
        IN  IF qualifying = {}
            THEN call.out = Decision(FALSE, TrimSpace(call.arg))
            ELSE \E k \in qualifying :
                    /\ \A j \in qualifying : k <= j
                    /\ IF isDone(k)
                       THEN call.out = Decision(TRUE, <<>>)
                       ELSE call.out = Decision(FALSE, TrimSpace(Tail(trimmed(k))))

\* a "retry: x" line followed by a DONE line: not done, feedback "x"
C17_Witness ==
    /\ call.fn = "parseDecision"
    /\ call.arg = <<"retry:", "x", "\n", "DONE">>
    /\ call.out = Decision(FALSE, <<"x">>)

IsAsciiLowerOrDigit(c) == c \in {"a", "b", "1", "2"}

\* ^[a-z0-9]+(-[a-z0-9]+)*$
MatchesSlugPattern(s) ==
    /\ s # <<>>
    /\ \A i \in 1..Len(s) : IsAsciiLowerOrDigit(s[i]) \/ s[i] = "-"
    /\ s[1] # "-"
    /\ s[Len(s)] # "-"
    /\ \A i \in 1..(Len(s) - 1) : ~(s[i] = "-" /\ s[i + 1] = "-")

\* C19 (as stated): the slug of every title matches
\* ^[a-z0-9]+(-[a-z0-9]+)*$ and is at most SlugMaxLen long
C19_SlugSafe ==
    call.fn = "toSlug" =>
        /\ MatchesSlugPattern(call.out)
        /\ Len(call.out) <= SlugMaxLen

\* C20 (as stated): ParseFile returns the task list of the first of the
\* structured scan, the checkbox scan and the whole-file fallback that
\* yields a task, and fails, with the empty-file error, only on a file that
\* is empty after trimming
C20_FirstYieldingStrategy ==
    call.fn = "ParseFile" =>
        LET readable == [i \in 1..Len(call.arg) |->
                            IF call.arg[i].kind = "overlong"
                            THEN [kind |-> "text", title |-> <<>>]
                            ELSE call.arg[i]]
            first == structuredScan(readable, 1, FALSE, <<>>, <<>>)
            second == checkboxScan(readable, 1, <<>>, <<>>)
        IN  IF IsBlankFile(call.arg)
            THEN call.out = ParseError("task file is empty")
            ELSE /\ call.out.err = ""
                 /\ call.out.tasks # <<>>
                 /\ call.out.tasks =
                       IF first # <<>> THEN first
                       ELSE IF second # <<>> THEN second
                       ELSE parseFallbackSingleTask(readable).tasks

\* line k of the file is under a "## Tasks" heading
InSection(lines, k) ==
    \E h \in 1..(k - 1) :
        /\ lines[h].kind = "section"
        /\ \A m \in (h + 1)..(k - 1) : lines[m].kind \notin {"section", "heading"}

\* line k is an item line that starts a task in the scan fn
StartsTask(fn, lines, k) ==
    IF fn = "parseCheckboxTasks" THEN lines[k].kind = "open"
    ELSE lines[k].kind \in {"open", "bullet", "numbered"} /\ InSection(lines, k)

\* the numbers of the lines that start a task, in file order
RECURSIVE StartLines(_, _, _)
StartLines(fn, lines, k) ==
    IF k > Len(lines) THEN <<>>
    ELSE IF StartsTask(fn, lines, k) THEN <<k>> \o StartLines(fn, lines, k + 1)
    ELSE StartLines(fn, lines, k + 1)

\* C21: in the structured scan and in the checkbox scan a checkbox marked x
\* or X never produces a task (the tasks are, in order, those of the item
\* lines that are not completed checkboxes) and ends the task in progress:
\* a line after it is appended to no task's description until the next item
\* line has started a task
C21_ClosedBoxEndsTask ==
    (call.fn \in {"parseStructuredTasks", "parseCheckboxTasks"} /\ call.out.err = "") =>
        LET lines == call.arg
            starts == StartLines(call.fn, lines, 1)
        IN  /\ Len(call.out.tasks) = Len(starts)
            /\ \A n \in 1..Len(starts) :
                  /\ lines[starts[n]].kind # "closed"
                  /\ call.out.tasks[n].Title = lines[starts[n]].title
            /\ \A i \in 1..Len(lines) : \A j \in (i + 1)..Len(lines) :
                  (/\ lines[i].kind = "closed"
                   /\ \A k \in (i + 1)..j : ~StartsTask(call.fn, lines, k))
                  => \A n \in 1..Len(call.out.tasks) :
                        \A d \in 1..Len(call.out.tasks[n].Description) :
                            call.out.tasks[n].Description[d] # j

\* the checkbox scan of "- [ ] a", "- [x] b", text: one task, whose
\* description is empty
C21_Witness ==
    /\ call.fn = "parseCheckboxTasks"
    /\ call.arg = <<[kind |-> "open", title |-> <<"a">>],
                       [kind |-> "closed", title |-> <<"b">>],
                       [kind |-> "text", title |-> <<>>]>>
    /\ call.out = Parsed(<<[Title |-> <<"a">>, Description |-> <<>>,
                            Slug |-> <<"a">>]>>)

\* C22: parsing is a fixed point under re-serialisation: the tasks of a
\* file, written back as a task section with one bullet line per title and
\* parsed again, are as many, with the same titles and the same slugs in the
\* same order
C22_ReparseFixedPoint ==
    (call.fn = "Reparse" /\ call.out.first.err = "") =>
        /\ call.out.second.err = ""
        /\ Len(call.out.second.tasks) = Len(call.out.first.tasks)
        /\ \A n \in 1..Len(call.out.first.tasks) :
              /\ call.out.second.tasks[n].Title = call.out.first.tasks[n].Title
              /\ call.out.second.tasks[n].Slug = call.out.first.tasks[n].Slug

\* C23: get-entry, update-status and destroy for a slug that has no manifest
\* entry return an error and leave the manifest, and the worktrees and
\* branches with it, exactly as they were
C23_UnknownSlugIsError ==
    (/\ call.fn \in {"GetEntry", "UpdateStatus", "Destroy"}
     /\ call.arg.slug \notin DOMAIN call.arg.repo.manifest)
    => /\ call.out.err # ""
       /\ call.out.entry = NoEntry
       /\ call.out.repo = call.arg.repo

\* update-status for slug b was refused on a manifest that holds slug a only
C23_Witness ==
    /\ call.fn = "UpdateStatus"
    /\ call.arg.slug = <<"b">>
    /\ DOMAIN call.arg.repo.manifest = {<<"a">>}
    /\ call.out.err # ""
    /\ call.out.repo.manifest = call.arg.repo.manifest

\* C24: in PR mode, whatever max-iterations is and however many iterations
\* a task used, the log whose tail goes into the PR body is the log the
\* worker's last invocation for that task wrote
C24_PrLogIsFinalLog ==
    \A t \in DOMAIN prLogPath :
        prLogPath[t] # <<>> => prLogPath[t] = g[t].logPath

\* C25: whatever task list the parser produced, no two loops in flight at
\* the same time work on the same workspace's memory files or write the
\* same log file
C25_LoopsShareNothing ==
    \A t \in InFlight : \A u \in InFlight \ {t} :
        /\ entries[t].Path # entries[u].Path
        /\ g[t].logPath = <<>> \/ g[t].logPath # g[u].logPath

\* the place of a manifest status in the order pending, running, done/failed
StatusRank(status) ==
    CASE status = "pending" -> 0 [] status = "running" -> 1 [] OTHER -> 2

\* the manifest status of task t is known: its entry is in the manifest
HasStatus(t) == t \in 1..Len(entries) /\ tasks[t].Slug \in DOMAIN manifest
StatusOf(t) == manifest[tasks[t].Slug].Status

\* the status of task t is running while its loop runs, from before the
\* first worker invocation until the loop has returned, and after the loop
\* it is done exactly when the final worker result is a success
C26_StatusTellsProgress ==
    SlugsDistinct =>
        \A t \in 1..Len(entries) :
            HasStatus(t) =>
                IF t \notin DOMAIN g \/ g[t].pc \in {"idle", "acquire", "status1_get", "status1_save"}
                THEN StatusOf(t) = "pending" /\ (t \in DOMAIN g => invocations[t] = 0)
                ELSE IF g[t].pc \in {"enter", "iter", "review", "write",
                                      "status2_get", "status2_save"}
                THEN StatusOf(t) = "running"
                ELSE /\ StatusOf(t) \in {"done", "failed"}
                     /\ StatusOf(t) = "done" <=> loopResults[t].FinalWorkerResult.Success

\* a step moves the status of task t one place forward or leaves it
C26_StatusStep ==
    \A t \in 1..Len(entries) :
        (HasStatus(t) /\ HasStatus(t)') =>
            \/ StatusOf(t)' = StatusOf(t)
            \/ StatusRank(StatusOf(t)') = StatusRank(StatusOf(t)) + 1

PhaseRank(p) ==
    CASE p = "deps" -> 0 [] p = "resolve" -> 1 [] p = "parse" -> 2 [] p = "refine" -> 3
      [] p = "dryrun" -> 4 [] p = "create" -> 5 [] p = "loops" -> 6 [] p = "dispatch" -> 7
      [] p = "cleanup" -> 8 [] p = "summary" -> 9 [] OTHER -> 10

\* every loop has returned and its goroutine has ended
AllLoopsReturned == \A t \in DOMAIN g : g[t].pc = "done"

\* the dispatch of every task's output has been attempted (a failed task's
\* output is skipped), or no dispatch is configured
AllDispatched == cfg.CreatePRs => \A t \in DOMAIN dispatched : dispatched[t] # "none"

\* dispatch runs only after every loop has returned, cleanup only after the
\* dispatch has been attempted for every task, and the exit comes last
C27_PhasesInOrder ==
    /\ PhaseRank(phase) >= PhaseRank("dispatch") => AllLoopsReturned
    /\ \A t \in DOMAIN dispatched :
          dispatched[t] # "none" => PhaseRank(phase) >= PhaseRank("dispatch")
    /\ PhaseRank(phase) >= PhaseRank("cleanup") => AllDispatched
    /\ exitCode # -1 => phase = "exited"

\* a step never goes back to an earlier phase, and a step that removes a
\* worktree or a branch is taken in cleanup, with no loop in flight and
\* every task's output dispatched
C27_Step ==
    /\ PhaseRank(phase') >= PhaseRank(phase)
    /\ (worktrees \ worktrees' # {} \/ branches \ branches' # {}) =>
          /\ phase = "cleanup"
          /\ InFlight = {}
          /\ AllLoopsReturned
          /\ AllDispatched

\* C27: the phases of a run are strictly ordered: the output dispatch begins
\* only after every loop has returned, cleanup only after the dispatch has
\* been attempted for every task, summary and exit come last; no workspace
\* or branch is destroyed while a loop is in flight or before that task's
\* output has been dispatched
C27_PhaseOrder ==
    /\ []C27_PhasesInOrder
    /\ [][C27_Step]_vars

\* a parallel run of two tasks has dispatched both outputs and cleanup has
\* removed the first worktree
C27_Witness ==
    /\ phase = "cleanup"
    /\ ~cfg.Sequential
    /\ N = 2
    /\ cfg.CreatePRs
    /\ \A t \in DOMAIN dispatched : dispatched[t] \in {"skipped", "pr created"}
    /\ \E t \in DOMAIN dispatched : dispatched[t] = "pr created"
    /\ idx = 2
    /\ ~isWorktree(worktrees, entries[1].Path)
    /\ isWorktree(worktrees, entries[2].Path)

\* the status line of PROGRESS.md in a workspace, and its iteration
ProgressStatus(mem, path) == Load(mem, path).Progress[4]
ProgressIteration(mem, path) == Load(mem, path).Progress[3]

\* C28: the loop fails fast: when the worker fails at iteration k the
\* reviewer is not invoked for k, the status failed is written to memory
\* for k, there is no iteration k+1, and the loop returns that failure
C28_FailFast ==
    [][\A t \in Launched :
          /\ (g[t].pc = "iter" /\ g'[t].pc # "iter" /\ ~g'[t].result.Success) =>
                /\ g'[t].pc = "write"
                /\ reviews'[t] = reviews[t]
          /\ (g[t].pc = "write" /\ g'[t].pc # "write" /\ ~g[t].result.Success) =>
                /\ ProgressStatus(memory', entries[t].Path) = "failed"
                /\ ProgressIteration(memory', entries[t].Path) = g[t].iter
                /\ g'[t].pc = "status2_get"
                /\ loopResults'[t].FinalWorkerResult = g[t].result
                /\ loopResults'[t].Iterations = g[t].iter
                /\ ~results'[t].Success
          /\ workerFails[t] >= 1 =>
                /\ workerFails'[t] = 1
                /\ invocations'[t] = invocations[t]
                /\ reviews'[t] = reviews[t]]_vars

\* with a reviewer, the worker of a task has failed at iteration 2: the
\* loop has returned the failure after two invocations and one review
C28_Witness ==
    \E t \in Launched :
        /\ cfg.Reviewer
        /\ Returned(t)
        /\ workerFails[t] = 1
        /\ invocations[t] = 2
        /\ reviews[t] = 1
        /\ loopResults[t].Iterations = 2
        /\ ~results[t].Success
        /\ ProgressStatus(memory, entries[t].Path) = "failed"

\* a loop that has returned after a reviewer error in its last iteration
\* used up max-iterations, returned the worker's success, and its output is
\* not skipped by the dispatch
C29_ErrorNeverFails ==
    \A t \in Launched :
        (g[t].reviewed = "error" /\ Returned(t)) =>
            /\ loopResults[t].Iterations = MaxIter
            /\ results[t].Success
            /\ dispatched[t] # "skipped"

\* the steps of an iteration whose reviewer call returned an error
C29_ErrorStep ==
    \A t \in Launched :
        /\ (g[t].pc = "review" /\ g'[t].pc # "review" /\ g'[t].reviewed = "error") =>
              /\ g[t].result.Success
              /\ g'[t].notes = ""
              /\ ~g'[t].done
              /\ doneAt'[t] = doneAt[t]
        /\ (g[t].pc = "write" /\ g'[t].pc # "write" /\ g[t].reviewed = "error") =>
              /\ ProgressStatus(memory', entries[t].Path) = "in-progress"
              /\ IF g[t].iter < MaxIter
                 THEN g'[t].pc = "iter" /\ g'[t].iter = g[t].iter + 1
                 ELSE /\ g'[t].pc = "status2_get"
                      /\ results'[t] = g[t].result
                      /\ results'[t].Success
                      /\ loopResults'[t].Iterations = MaxIter

C30_ContextHandedOver ==
    [][\A t \in Launched :
          (g[t].pc = "iter" /\ g'[t].pc # "iter") =>
              g'[t].memCtx = IF g[t].iter = 1 THEN EmptyContext
                             ELSE g[t].lastMemCtx]_vars

\* C31: destroy for a slug whose manifest entry names a workspace that is
\* already gone still proceeds: once destroy has returned the manifest holds
\* no entry for the slug
C31_DestroyOfGoneWorkspace ==
    (/\ call.fn = "Destroy"
     /\ call.arg.slug \in DOMAIN call.arg.repo.manifest
     /\ call.arg.repo.manifest[call.arg.slug].Path \notin call.arg.repo.dirs
     /\ call.arg.gitOk)
    => call.arg.slug \notin DOMAIN call.out.repo.manifest

\* C32: memory.Write is atomic over the four files: after it has returned,
\* with or without an error, all four files hold the content of the new
\* iteration or all four hold what they held before, never a mix
C32_WriteAllOrNothing ==
    call.fn = "Write" =>
        \/ call.out.after = WriteFiles(call.arg.data)
        \/ call.out.after = call.arg.before

\* C33: when the tasks come from an issue, the temp file that holds the
\* fetched issue body is removed by the time the run ends, however it ends:
\* a setup error, a dry run, every task successful, or some task failed
C33_IssueTempFileRemoved ==
    (cfg.Issue /\ phase = "exited") => issueTmp # "exists"

\* a step of a parallel run that changes the result slot of task t is a
\* step of the goroutine of task t only, taken while the coordinator waits
C34_SlotStep ==
    ~cfg.Sequential =>
        \A t \in DOMAIN results \cap DOMAIN results' :
            (results'[t] # results[t] \/ loopResults'[t] # loopResults[t]) =>
                /\ phase = "loops" /\ phase' = "loops"
                /\ g[t].pc \in {"enter", "write"}
                /\ g'[t].pc = "status2_get"
                /\ \A u \in DOMAIN g \ {t} : g'[u] = g[u]

\* once the coordinator is past wg.Wait, where it reads the slots, every
\* goroutine has ended and the WaitGroup counter is zero
C34_ReadAfterJoin ==
    (~cfg.Sequential /\ PhaseRank(phase) >= PhaseRank("dispatch")) =>
        /\ wg = 0
        /\ \A t \in DOMAIN g : g[t].pc = "done"

\* C34: in parallel mode the per-task result slots are free of races: each
\* slot is written by the goroutine of its own task and by no other, and
\* the coordinator reads a slot (dispatch, summary, exit status) only after
\* that goroutine has finished
C34_SlotsRaceFree ==
    /\ []C34_ReadAfterJoin
    /\ [][C34_SlotStep]_vars

\* a parallel run of two tasks: the first failed, the second succeeded, and
\* the coordinator reads both slots in the summary
C34_Witness ==
    /\ ~cfg.Sequential
    /\ phase = "summary"
    /\ N = 2
    /\ ~results[1].Success
    /\ results[2].Success
    /\ loopResults[2].Iterations = 1

\* C35: without a reviewer model the loop of a task invokes the worker
\* exactly once, whatever max-iterations is, and the result of the loop is
\* the result of that invocation
C35_NoReviewerOneInvocation ==
    ~cfg.Reviewer =>
        \A t \in DOMAIN invocations :
            /\ invocations[t] <= 1
            /\ g[t].pc = "write" => invocations[t] = 1
            /\ g[t].pc \in {"status2_get", "status2_save", "release", "done"} =>
                  /\ invocations[t] = 1
                  /\ loopResults[t].Iterations = 1
                  /\ loopResults[t].FinalWorkerResult = g[t].result
                  /\ results[t] = g[t].result

\* a run without reviewer and with max-iterations 2 has ended: the worker
\* was invoked once for each of two tasks, and the first succeeded
C35_Witness ==
    /\ ~cfg.Reviewer
    /\ cfg.MaxIterations = 2
    /\ phase = "exited"
    /\ N = 2
    /\ invocations = <<1, 1>>
    /\ results[1].Success
    /\ ~results[2].Success

\* the status of the iteration task t has last completed, as its outcome
\* tells it: the worker's result and, with a reviewer, the verdict
StatusByOutcome(t) ==
    IF ~g[t].result.Success THEN "failed"
    ELSE IF ~cfg.Reviewer \/ g[t].reviewed = "DONE" THEN "done"
    ELSE "in-progress"

\* C36 (read while the workspace is there, before cleanup removes it):
\* the status written to memory at the end of an iteration is failed
\* exactly when the worker failed, done exactly when the worker succeeded
\* and the iteration is done (the reviewer said DONE, or there is no
\* reviewer), and in-progress otherwise, the last allowed iteration included
C36_StatusWritten ==
    SlugsDistinct =>
        \A t \in Launched :
            (/\ phase \in {"loops", "dispatch"}
             /\ g[t].iterations >= 1
             /\ g[t].pc \in {"iter", "status2_get", "status2_save", "release", "done"}) =>
                /\ ProgressIteration(memory, entries[t].Path) = g[t].iterations
                /\ ProgressStatus(memory, entries[t].Path) = StatusByOutcome(t)
                /\ Load(memory, entries[t].Path).Agents[3] = StatusByOutcome(t)

\* with a reviewer and max-iterations 2, the loop of a task has returned
\* after the reviewer asked for a retry at iteration 2: the status written
\* last is in-progress
C36_Witness ==
    \E t \in Launched :
        /\ SlugsDistinct
        /\ cfg.Reviewer
        /\ cfg.MaxIterations = 2
        /\ phase = "dispatch"
        /\ g[t].iterations = 2
        /\ g[t].reviewed = "RETRY"
        /\ results[t].Success
        /\ ProgressStatus(memory, entries[t].Path) = "in-progress"

\* C37: a run whose output mode is none of the known modes is rejected when
\* the configuration is validated: it ends with an error before any
\* workspace is created or any agent invoked, and never reaches the dispatch
C37_UnknownModeRejected ==
    ~ValidMode(cfg.OutputMode) =>
        /\ entries = <<>>
        /\ \A t \in DOMAIN invocations : invocations[t] = 0
        /\ PhaseRank(phase) < PhaseRank("dispatch") \/ phase = "exited"
        /\ phase = "exited" => setupErr # ""

\* C38: after prune has returned without error, every entry left in the
\* manifest has a path that exists, the slugs returned are exactly those of
\* the entries whose path did not exist, and every entry whose path exists
\* is unchanged
C38_PruneFrame ==
    (call.fn = "Prune" /\ call.out.err = "") =>
        LET before == call.arg.repo
            after == call.out.repo
        IN  /\ \A s \in DOMAIN after.manifest : after.manifest[s].Path \in after.dirs
            /\ call.out.pruned =
                  {s \in DOMAIN before.manifest : before.manifest[s].Path \notin before.dirs}
            /\ \A s \in DOMAIN before.manifest :
                  before.manifest[s].Path \in before.dirs =>
                      /\ s \in DOMAIN after.manifest
                      /\ after.manifest[s] = before.manifest[s]
            /\ after.dirs = before.dirs
            /\ after.branches = before.branches

\* prune of a manifest with two entries: the directory of b is gone though
\* git still lists its worktree, the directory of a exists though git does
\* not list it; b is returned and a stays
C38_Witness ==
    /\ call.fn = "Prune"
    /\ call.out.err = ""
    /\ DOMAIN call.arg.repo.manifest = ManagedSlugs
    /\ call.arg.repo.dirs = {PathOf(<<"a">>)}
    /\ {w.path : w \in call.arg.repo.worktrees} = {PathOf(<<"b">>)}
    /\ call.out.pruned = {<<"b">>}
    /\ DOMAIN call.out.repo.manifest = {<<"a">>}

\* C39: in the structured section scan the blank lines that follow a bullet
\* or numbered item are kept in the description of its task, while a blank
\* line that follows a checkbox item ends the description of its task: the
\* non-item lines after the blank line are not appended to it
C39_BlankEndsCheckboxDescription ==
    (call.fn = "parseStructuredTasks" /\ call.out.err = "") =>
        LET lines == call.arg
            starts == StartLines(call.fn, lines, 1)
        IN  /\ Len(call.out.tasks) = Len(starts)
            /\ \A n \in 1..Len(starts) :
                  LET k == starts[n]
                      desc == {call.out.tasks[n].Description[d] :
                                  d \in 1..Len(call.out.tasks[n].Description)}
                  IN  \A j \in (k + 1)..Len(lines) :
                         (\A m \in (k + 1)..j : lines[m].kind \in {"text", "blank"}) =>
                             IF lines[k].kind = "open"
                             THEN lines[j].kind = "text" =>
                                     (j \in desc <=>
                                         \A m \in (k + 1)..j : lines[m].kind = "text")
                             ELSE j \in desc

\* C40: every task the parser returns has a non-empty title, whatever the
\* item line: also when its text consists of annotations only or is empty
\* once the annotations are cut out
C40_TitleNonEmpty ==
    (call.fn = "Reparse" /\ call.out.first.err = "") =>
        \A n \in 1..Len(call.out.first.tasks) : call.out.first.tasks[n].Title # <<>>

====
